---- MODULE Spec2Model ----
(***************************************************************************)
(* Model of tracklog-to-exif: the time-based matching engine of            *)
(* core/match.py (match_photos_to_track, _convert_photo_time_to_utc,       *)
(* calculate_distance, the bracket lookup), the record validation of       *)
(* core/models.py, the EXIF reader and the GPS writers of core/exif_io.py  *)
(* (read_exif_info, write_gps_to_copy, write_gps_inplace), the folder      *)
(* scan of core/scan.py, the processing run of core/pipeline.py and the    *)
(* match preview of ui/pages.py.  Each is a state machine of its own over  *)
(* its own variables: Spec, SpecConv, SpecWrite, SpecRead, SpecBracket,    *)
(* SpecInplace, SpecScan, SpecPipeline and SpecUi.                         *)
(*                                                                         *)
(* Instants are whole seconds.  Coordinates are Python floats; they are    *)
(* modelled as binary floating-point numbers with a MantBits-bit           *)
(* significand, held as integers counting units of 2^-FracBits degree,     *)
(* and every float operation rounds to nearest, ties to even, as           *)
(* IEEE-754 does.                                                          *)
(***************************************************************************)
EXTENDS Integers, Sequences, FiniteSets, TLC

VARIABLES pc, photos, track_points, photo_tz_offset, camera_offset_sec,
          max_error_sec, method, max_distance_m, on_progress,
          match_results, progress, pos, exc

\* one call of _convert_photo_time_to_utc: its position, its arguments and
\* the datetime it holds
VARIABLES conv_pc, conv_photo_dt, conv_tz_offset, conv_camera_offset_sec,
          conv_dt

\* one call of write_gps_to_copy: its position, its coordinates, the file
\* system now and at the call, the file operations made so far, the GPS
\* block built, the exception raised and the value returned
VARIABLES w_pc, w_lat, w_lon, fs, fs_at_call, io_log, gps_ifd, w_exc, w_ret

\* one call of read_exif_info: its position, the path's kind, what
\* piexif.load gives for it, the two locals, the exception raised and the
\* pair returned
VARIABLES r_pc, r_path, r_load, exif_dict, r_has_gps, r_datetime_utc, r_exc,
          r_ret

\* one bracket lookup of match_photos_to_track: its position, the track,
\* the normalised photo time, the index bisect_left gives and the two
\* neighbours bound from it (None: the side does not exist)
VARIABLES b_pc, b_track, b_query, b_idx, b_before, b_after

\* one call of scan_photos: its position, the folder's kind, the flag
\* recursive, the folder's entries, the files selected, the number of files
\* handled, the three lists and the exception raised
VARIABLES sc_pc, sc_folder, sc_recursive, sc_entries, image_files, sc_done,
          already_gps, need_process, no_time, sc_exc

\* one call of write_gps_inplace: its position, its coordinates, the
\* image file and the temporary file now and at the call, what the call
\* of write_gps_to_copy did, the exception raised and the value returned
VARIABLES ip_pc, ip_lat, ip_lon, ip_fs, ip_fs_at_call, ip_write, ip_exc,
          ip_ret

\* one call of process_pipeline: its position, its arguments (the folder
\* and its entries, recursive, output_mode, track_type), the three lists
\* of the scan, the track parsed, the match results, the number of results
\* handled by the write loop, the two counters, the photo files and the
\* files of the output directory, the calls of the writers made, the
\* exception raised and the summary returned
VARIABLES p_pc, p_folder, p_entries, p_recursive, p_output_mode,
          p_track_type, p_lists, p_track, p_match_results, p_pos,
          write_success, write_failed, p_files, p_output, p_calls, p_exc,
          p_summary

matchVars == <<pc, photos, track_points, photo_tz_offset, camera_offset_sec,
               max_error_sec, method, max_distance_m, on_progress,
               match_results, progress, pos, exc>>

convVars == <<conv_pc, conv_photo_dt, conv_tz_offset,
              conv_camera_offset_sec, conv_dt>>

writeVars == <<w_pc, w_lat, w_lon, fs, fs_at_call, io_log, gps_ifd, w_exc,
               w_ret>>

readVars == <<r_pc, r_path, r_load, exif_dict, r_has_gps, r_datetime_utc,
              r_exc, r_ret>>

bracketVars == <<b_pc, b_track, b_query, b_idx, b_before, b_after>>

pipelineVars == <<p_pc, p_folder, p_entries, p_recursive, p_output_mode,
                  p_track_type, p_lists, p_track, p_match_results, p_pos,
                  write_success, write_failed, p_files, p_output, p_calls,
                  p_exc, p_summary>>

inplaceVars == <<ip_pc, ip_lat, ip_lon, ip_fs, ip_fs_at_call, ip_write,
                 ip_exc, ip_ret>>

scanVars == <<sc_pc, sc_folder, sc_recursive, sc_entries, image_files,
              sc_done, already_gps, need_process, no_time, sc_exc>>

\* ui/pages.py: the application state the match page works on, the state
\* the last preview was computed for, and the match step of the last
\* processing run with the state it was started in
VARIABLES ui_pc, app_need_process, app_track, app_photo_tz_offset,
          app_camera_offset_sec, app_max_error_sec, app_match_method,
          app_max_distance_m, app_match_results, ui_previewed, ui_processed

uiVars == <<ui_pc, app_need_process, app_track, app_photo_tz_offset,
            app_camera_offset_sec, app_max_error_sec, app_match_method,
            app_max_distance_m, app_match_results, ui_previewed,
            ui_processed>>

\* the state outside match_photos_to_track
nonMatchVars == <<uiVars, pipelineVars, inplaceVars, scanVars, convVars, writeVars, readVars, bracketVars>>

\* the state outside _convert_photo_time_to_utc
nonConvVars == <<uiVars, pipelineVars, inplaceVars, scanVars, matchVars, writeVars, readVars, bracketVars>>

\* the state outside write_gps_to_copy
nonWriteVars == <<uiVars, pipelineVars, inplaceVars, scanVars, matchVars, convVars, readVars, bracketVars>>

\* the state outside read_exif_info
nonReadVars == <<uiVars, pipelineVars, inplaceVars, scanVars, matchVars, convVars, writeVars, bracketVars>>

\* the state outside the bracket lookup
nonBracketVars == <<uiVars, pipelineVars, inplaceVars, scanVars, matchVars, convVars, writeVars, readVars>>

\* the state outside write_gps_inplace
nonInplaceVars == <<uiVars, pipelineVars, scanVars, matchVars, convVars, writeVars, readVars,
                    bracketVars>>

\* the state outside process_pipeline
nonPipelineVars == <<uiVars, inplaceVars, scanVars, matchVars, convVars, writeVars,
                     readVars, bracketVars>>

\* the state outside scan_photos
nonScanVars == <<uiVars, pipelineVars, inplaceVars, matchVars, convVars, writeVars, readVars, bracketVars>>

\* the state outside the match page
nonUiVars == <<pipelineVars, inplaceVars, scanVars, matchVars, convVars,
               writeVars, readVars, bracketVars>>

vars == <<matchVars, nonMatchVars>>

----------------------------------------------------------------------------
(* Bounds of the model *)

MaxPhotos == 2
MaxTrack == 2
MaxBracketTrack == 3
MaxFiles == 2
MaxPipelineFiles == 2
MantBits == 6
FracBits == 3
GpsMantBits == 16
GpsFracBits == 14

----------------------------------------------------------------------------
(* Optional values: None is the empty tuple, a present value v is <<v>> *)

None == <<>>
Some(v) == <<v>>

----------------------------------------------------------------------------
(* Floating point *)

RECURSIVE Pow2(_)
Pow2(n) == IF n <= 0 THEN 1 ELSE 2 * Pow2(n - 1)

RECURSIVE BitLen(_)
BitLen(n) == IF n <= 0 THEN 0 ELSE 1 + BitLen(n \div 2)

Abs(x) == IF x < 0 THEN -x ELSE x

\* unit in the last place of a magnitude whose integer part (in units) is q
Ulp(q) == IF BitLen(q) <= MantBits THEN 1 ELSE Pow2(BitLen(q) - MantBits)

\* the float nearest to the rational n/d (in units), ties to even, d > 0
RoundPos(n, d) ==
    LET s == IF n < 0 THEN -1 ELSE 1
        a == s * n
        q == a \div d
        u == Ulp(q)
        lo == (q \div u) * u
        twice == 2 * (a - lo * d)
        ud == u * d
        m == IF twice < ud THEN lo
             ELSE IF twice > ud THEN lo + u
             ELSE IF (lo \div u) % 2 = 0 THEN lo ELSE lo + u
    IN s * m

RoundRat(n, d) == IF d < 0 THEN RoundPos(-n, -d) ELSE RoundPos(n, d)

Unit == Pow2(FracBits)
Deg(d) == d * Unit

FlAdd(x, y) == RoundRat(x + y, 1)
FlSub(x, y) == RoundRat(x - y, 1)
FlMul(x, y) == RoundRat(x * y, Unit)
\* quotient of two whole numbers of seconds, as a float in units
FlDivSec(n, d) == RoundRat(n * Unit, d)

----------------------------------------------------------------------------
(* core/models.py *)

PHOTO_STATUS_ALREADY_GPS == "already_gps"
PHOTO_STATUS_NEED_PROCESS == "need_process"
PHOTO_STATUS_NO_TIME == "no_time"

MATCH_STATUS_MATCHED == "matched"
MATCH_STATUS_UNMATCHED == "unmatched"
MATCH_STATUS_TOO_FAR == "too_far"
MATCH_STATUS_ALREADY_GPS == "already_gps"
MATCH_STATUS_NO_TIME == "no_time"
MATCH_STATUS_WRITE_FAILED == "write_failed"

MATCH_METHOD_NEAREST == "nearest"
MATCH_METHOD_INTERP == "interp"

LatLimit == 90
LonLimit == 180

LatInRange(lat) == -Deg(LatLimit) <= lat /\ lat <= Deg(LatLimit)
LonInRange(lon) == -Deg(LonLimit) <= lon /\ lon <= Deg(LonLimit)

PhotoItem(path, has_gps, datetime_utc, status) ==
    [path |-> path, has_gps |-> has_gps, datetime_utc |-> datetime_utc,
     status |-> status]

\* PhotoItem.__post_init__ accepts the record
PhotoItemValid(p) ==
    /\ p.path # ""
    /\ p.status \in {PHOTO_STATUS_ALREADY_GPS, PHOTO_STATUS_NEED_PROCESS,
                     PHOTO_STATUS_NO_TIME}
    /\ ~(p.status = PHOTO_STATUS_ALREADY_GPS /\ ~p.has_gps)
    /\ ~(p.status = PHOTO_STATUS_NEED_PROCESS
         /\ (p.has_gps \/ p.datetime_utc = None))
    /\ ~(p.status = PHOTO_STATUS_NO_TIME /\ p.datetime_utc # None)

TrackPoint(t_utc, lat, lon) == [t_utc |-> t_utc, lat |-> lat, lon |-> lon]

\* TrackPoint.__post_init__ accepts the record
TrackPointValid(p) == LatInRange(p.lat) /\ LonInRange(p.lon)

MatchItem(photo_path, lat, lon, error_sec, meth, status, reason) ==
    [photo_path |-> photo_path, lat |-> lat, lon |-> lon,
     error_sec |-> error_sec, method |-> meth, status |-> status,
     reason |-> reason]

\* MatchItem.__post_init__ accepts the record (otherwise ValueError)
MatchItemValid(m) ==
    /\ m.photo_path # ""
    /\ m.status \in {MATCH_STATUS_MATCHED, MATCH_STATUS_UNMATCHED,
                     MATCH_STATUS_TOO_FAR, MATCH_STATUS_ALREADY_GPS,
                     MATCH_STATUS_NO_TIME, MATCH_STATUS_WRITE_FAILED}
    /\ (m.method # None =>
           m.method[1] \in {MATCH_METHOD_NEAREST, MATCH_METHOD_INTERP})
    /\ (m.status = MATCH_STATUS_MATCHED =>
           /\ m.lat # None /\ m.lon # None
           /\ m.method # None
           /\ LatInRange(m.lat[1])
           /\ LonInRange(m.lon[1]))
    /\ (m.status \in {MATCH_STATUS_UNMATCHED, MATCH_STATUS_TOO_FAR} =>
           /\ (m.lat # None => LatInRange(m.lat[1]))
           /\ (m.lon # None => LonInRange(m.lon[1])))

----------------------------------------------------------------------------
(* core/match.py *)

EXC_NONE == "none"
EXC_EMPTY_TRACK == "ValueError: empty track"
EXC_INVALID_METHOD == "ValueError: invalid method"
EXC_MATCH_ITEM == "ValueError: MatchItem"
EXC_TIMEZONE == "ValueError: timezone offset"
EXC_NAME_ERROR == "NameError: i"

\* calculate_distance (Haversine, metres) tabulated on the coordinates of
\* TrackPointPool: the values the function returns there, rounded to a
\* metre (10118738 m between (-1, -2) and (90, 180)); no other pair occurs
DistanceM(lat1, lon1, lat2, lon2) ==
    LET a == <<lat1 \div Unit, lon1 \div Unit>>
        b == <<lat2 \div Unit, lon2 \div Unit>>
        pair == {a, b}
    IN IF a = b THEN 0
       ELSE IF pair = {<<-1, -2>>, <<90, 180>>} THEN 10118738
       ELSE 0

SecondsPerHour == 3600
MaxTzHours == 24

\* _convert_photo_time_to_utc: timezone(timedelta(hours=tz)) raises
\* ValueError unless the offset is strictly between -24h and 24h
ConvertRaises(tz_offset) ==
    tz_offset >= MaxTzHours \/ tz_offset <= -MaxTzHours

\* _convert_photo_time_to_utc: the naive UTC instant
ConvertPhotoTimeToUtc(photo_dt, tz_offset, cam_offset) ==
    LET photo_dt_utc == photo_dt - SecondsPerHour * tz_offset
    IN IF cam_offset # 0 THEN photo_dt_utc + cam_offset ELSE photo_dt_utc

\* a datetime object: wall-clock seconds and tzinfo, None on a naive
\* datetime, else the zone's UTC offset in seconds
Datetime(t, tzinfo) == [t |-> t, tzinfo |-> tzinfo]

\* dt.replace(tzinfo=...): the wall clock is kept
ReplaceTzinfo(dt, tzinfo) == Datetime(dt.t, tzinfo)

\* variant: the zone's offset is added instead of subtracted
AsTimezoneAddsOffset(dt, utcoffset) ==
    Datetime(dt.t + dt.tzinfo[1] + utcoffset, Some(utcoffset))

\* dt.astimezone(zone): the same instant on the wall clock of a zone with
\* the given UTC offset
AsTimezone(dt, utcoffset) ==
    Datetime(dt.t - dt.tzinfo[1] + utcoffset, Some(utcoffset))

\* dt + timedelta(seconds=s)
AddSeconds(dt, s) == Datetime(dt.t + s, dt.tzinfo)

\* variant: bisect.bisect_right, the insertion point after equal entries
RECURSIVE BisectRight(_, _, _, _)
BisectRight(a, x, lo, hi) ==
    IF lo < hi
    THEN LET mid == (lo + hi) \div 2
         IN IF x < a[mid + 1] THEN BisectRight(a, x, lo, mid)
            ELSE BisectRight(a, x, mid + 1, hi)
    ELSE lo

\* bisect.bisect_left(a, x, lo, hi)
RECURSIVE BisectLeft(_, _, _, _)
BisectLeft(a, x, lo, hi) ==
    IF lo < hi
    THEN LET mid == (lo + hi) \div 2
         IN IF a[mid + 1] < x THEN BisectLeft(a, x, mid + 1, hi)
            ELSE BisectLeft(a, x, lo, mid)
    ELSE lo

TrackTimes(track) == [k \in 1..Len(track) |-> track[k].t_utc]

\* variant: the constructor accepts every record
ConstructUnchecked(item) == [items |-> <<item>>, exc |-> EXC_NONE]

\* MatchItem(...) followed by match_results.append: a record the
\* constructor rejects raises ValueError and nothing is appended
Construct(item) ==
    IF MatchItemValid(item) THEN [items |-> <<item>>, exc |-> EXC_NONE]
    ELSE [items |-> <<>>, exc |-> EXC_MATCH_ITEM]

\* variant: a photo that is not to be processed is skipped, nothing appended
PassThroughSkipped(photo) == [items |-> <<>>, exc |-> EXC_NONE]

\* variant: a photo that is not to be processed is reported as unmatched
PassThroughUnmatched(photo) ==
    Construct(MatchItem(photo.path, None, None, None, None,
                        MATCH_STATUS_UNMATCHED, None))

\* a photo that is not to be processed
PassThrough(photo) ==
    Construct(MatchItem(photo.path, None, None, None, None, photo.status,
                        None))

\* idx == 0: the photo is not later than the first track time
EarlyResult(photo, q, track, maxerr) ==
    LET nearest_point == track[1]
        error_sec == Abs(q - nearest_point.t_utc)
    IN IF error_sec > maxerr
       THEN Construct(MatchItem(photo.path, None, None, Some(error_sec),
                                None, "too_far", Some("before track start")))
       ELSE Construct(MatchItem(photo.path, Some(nearest_point.lat),
                                Some(nearest_point.lon), Some(error_sec),
                                Some("nearest"), "matched", None))

\* variant: the gap to the last point is taken signed, without abs()
LateResultSignedGap(photo, q, track, maxerr) ==
    LET nearest_point == track[Len(track)]
        error_sec == nearest_point.t_utc - q
    IN IF error_sec > maxerr
       THEN Construct(MatchItem(photo.path, None, None, Some(error_sec),
                                None, "too_far", Some("after track end")))
       ELSE Construct(MatchItem(photo.path, Some(nearest_point.lat),
                                Some(nearest_point.lon), Some(error_sec),
                                Some("nearest"), "matched", None))

\* idx >= len(track_points): the photo is later than every track time
LateResult(photo, q, track, maxerr) ==
    LET nearest_point == track[Len(track)]
        error_sec == Abs(q - nearest_point.t_utc)
    IN IF error_sec > maxerr
       THEN Construct(MatchItem(photo.path, None, None, Some(error_sec),
                                None, "too_far", Some("after track end")))
       ELSE Construct(MatchItem(photo.path, Some(nearest_point.lat),
                                Some(nearest_point.lon), Some(error_sec),
                                Some("nearest"), "matched", None))

\* variant of the nearest branch: equal gaps choose the earlier point
NearestResultTieBefore(photo, q, point_before, point_after, maxerr) ==
    LET error_before == Abs(q - point_before.t_utc)
        error_after == Abs(q - point_after.t_utc)
        nearest_point == IF error_before <= error_after THEN point_before
                         ELSE point_after
        error_sec == IF error_before <= error_after THEN error_before
                     ELSE error_after
    IN IF error_sec > maxerr
       THEN Construct(MatchItem(photo.path, None, None, Some(error_sec),
                                None, "too_far", Some("nearest too far")))
       ELSE Construct(MatchItem(photo.path, Some(nearest_point.lat),
                                Some(nearest_point.lon), Some(error_sec),
                                Some("nearest"), "matched", None))

\* method == 'nearest' between two track points
NearestResult(photo, q, point_before, point_after, maxerr) ==
    LET error_before == Abs(q - point_before.t_utc)
        error_after == Abs(q - point_after.t_utc)
        nearest_point == IF error_before < error_after THEN point_before
                         ELSE point_after
        error_sec == IF error_before < error_after THEN error_before
                     ELSE error_after
    IN IF error_sec > maxerr
       THEN Construct(MatchItem(photo.path, None, None, Some(error_sec),
                                None, "too_far", Some("nearest too far")))
       ELSE Construct(MatchItem(photo.path, Some(nearest_point.lat),
                                Some(nearest_point.lon), Some(error_sec),
                                Some("nearest"), "matched", None))

\* variant of the degraded branch: equal gaps choose the earlier point
DegradedResultTieBefore(photo, q, point_before, point_after, maxerr, cb) ==
    LET error_before == Abs(q - point_before.t_utc)
        error_after == Abs(q - point_after.t_utc)
        nearest_point == IF error_before <= error_after THEN point_before
                         ELSE point_after
        error_sec == IF error_before <= error_after THEN error_before
                     ELSE error_after
        made == IF error_sec > maxerr
                THEN Construct(MatchItem(photo.path, None, None,
                                         Some(error_sec), None, "too_far",
                                         Some("degraded, too far")))
                ELSE Construct(MatchItem(photo.path, Some(nearest_point.lat),
                                         Some(nearest_point.lon),
                                         Some(error_sec), Some("nearest"),
                                         MATCH_STATUS_MATCHED,
                                         Some("degraded to nearest")))
    IN IF made.exc = EXC_NONE /\ cb
       THEN [items |-> made.items, exc |-> EXC_NAME_ERROR]
       ELSE made

\* interpolation degraded to the nearest point: the two bracketing points
\* are further apart than max_distance_m.  With a progress callback the
\* call on_progress(i + 1, ...) follows; i is not defined: NameError
DegradedResult(photo, q, point_before, point_after, maxerr, cb) ==
    LET error_before == Abs(q - point_before.t_utc)
        error_after == Abs(q - point_after.t_utc)
        nearest_point == IF error_before < error_after THEN point_before
                         ELSE point_after
        error_sec == IF error_before < error_after THEN error_before
                     ELSE error_after
        made == IF error_sec > maxerr
                THEN Construct(MatchItem(photo.path, None, None,
                                         Some(error_sec), None, "too_far",
                                         Some("degraded, too far")))
                ELSE Construct(MatchItem(photo.path, Some(nearest_point.lat),
                                         Some(nearest_point.lon),
                                         Some(error_sec), Some("nearest"),
                                         MATCH_STATUS_MATCHED,
                                         Some("degraded to nearest")))
    IN IF made.exc = EXC_NONE /\ cb
       THEN [items |-> made.items, exc |-> EXC_NAME_ERROR]
       ELSE made

\* ratio = (photo_dt_utc - t_before).total_seconds() / total_span
Ratio(q, t_before, total_span) == FlDivSec(q - t_before, total_span)

\* before + (after - before) * ratio
Blend(before, after, ratio) ==
    FlAdd(before, FlMul(FlSub(after, before), ratio))

\* variant of the interpolation branch: the error reported is the gap to
\* the earlier point
InterpResultErrorBefore(photo, q, point_before, point_after, maxerr) ==
    LET t_before == point_before.t_utc
        t_after == point_after.t_utc
        total_span == t_after - t_before
        ratio == Ratio(q, t_before, total_span)
        lat == IF total_span = 0 THEN point_before.lat
               ELSE Blend(point_before.lat, point_after.lat, ratio)
        lon == IF total_span = 0 THEN point_before.lon
               ELSE Blend(point_before.lon, point_after.lon, ratio)
        error_sec == Abs(q - t_before)
    IN IF error_sec > maxerr
       THEN Construct(MatchItem(photo.path, None, None, Some(error_sec),
                                None, "too_far", Some("interp too far")))
       ELSE Construct(MatchItem(photo.path, Some(lat), Some(lon),
                                Some(error_sec), Some("interp"),
                                MATCH_STATUS_MATCHED, None))

\* variant of the interpolation branch: rejects when error_sec >= max_error_sec
InterpResultRejectsEqual(photo, q, point_before, point_after, maxerr) ==
    LET t_before == point_before.t_utc
        t_after == point_after.t_utc
        total_span == t_after - t_before
        ratio == Ratio(q, t_before, total_span)
        lat == IF total_span = 0 THEN point_before.lat
               ELSE Blend(point_before.lat, point_after.lat, ratio)
        lon == IF total_span = 0 THEN point_before.lon
               ELSE Blend(point_before.lon, point_after.lon, ratio)
        error_before == Abs(q - t_before)
        error_after == Abs(q - t_after)
        error_sec == IF total_span = 0 THEN Abs(q - t_before)
                     ELSE IF error_before < error_after THEN error_before
                     ELSE error_after
    IN IF error_sec >= maxerr
       THEN Construct(MatchItem(photo.path, None, None, Some(error_sec),
                                None, "too_far", Some("interp too far")))
       ELSE Construct(MatchItem(photo.path, Some(lat), Some(lon),
                                Some(error_sec), Some("interp"),
                                MATCH_STATUS_MATCHED, None))

\* linear interpolation between two track points
InterpResult(photo, q, point_before, point_after, maxerr) ==
    LET t_before == point_before.t_utc
        t_after == point_after.t_utc
        total_span == t_after - t_before
        ratio == Ratio(q, t_before, total_span)
        lat == IF total_span = 0 THEN point_before.lat
               ELSE Blend(point_before.lat, point_after.lat, ratio)
        lon == IF total_span = 0 THEN point_before.lon
               ELSE Blend(point_before.lon, point_after.lon, ratio)
        error_before == Abs(q - t_before)
        error_after == Abs(q - t_after)
        error_sec == IF total_span = 0 THEN Abs(q - t_before)
                     ELSE IF error_before < error_after THEN error_before
                     ELSE error_after
    IN IF error_sec > maxerr
       THEN Construct(MatchItem(photo.path, None, None, Some(error_sec),
                                None, "too_far", Some("interp too far")))
       ELSE Construct(MatchItem(photo.path, Some(lat), Some(lon),
                                Some(error_sec), Some("interp"),
                                MATCH_STATUS_MATCHED, None))

\* distance filter of the interpolation branch
Degrades(point_before, point_after, maxdist) ==
    /\ maxdist # None
    /\ DistanceM(point_before.lat, point_before.lon,
                 point_after.lat, point_after.lon) > maxdist[1]

\* the photo's track position and the branch taken for it
MatchAt(photo, q, track, meth, maxerr, maxdist, cb) ==
    LET idx == BisectLeft(TrackTimes(track), q, 0, Len(track))
    IN IF idx = 0 THEN EarlyResult(photo, q, track, maxerr)
       ELSE IF idx >= Len(track) THEN LateResult(photo, q, track, maxerr)
       ELSE LET point_before == track[idx]
                point_after == track[idx + 1]
            IN IF meth = "nearest"
               THEN NearestResult(photo, q, point_before, point_after,
                                  maxerr)
               ELSE IF Degrades(point_before, point_after, maxdist)
               THEN DegradedResult(photo, q, point_before, point_after,
                                   maxerr, cb)
               ELSE InterpResult(photo, q, point_before, point_after,
                                 maxerr)

\* one iteration of the loop over the photos: the items appended (none
\* or one) and the exception raised, if any
ProcessPhoto(photo, track, tz, cam, maxerr, meth, maxdist, cb) ==
    IF photo.status # "need_process" \/ photo.datetime_utc = None
    THEN PassThrough(photo)
    ELSE IF ConvertRaises(tz)
    THEN [items |-> <<>>, exc |-> EXC_TIMEZONE]
    ELSE MatchAt(photo, ConvertPhotoTimeToUtc(photo.datetime_utc[1], tz, cam),
                 track, meth, maxerr, maxdist, cb)

\* variant of the entry checks: the method is checked before the track
EntryErrorMethodFirst(track, meth) ==
    IF meth \notin {"nearest", "interp"} THEN EXC_INVALID_METHOD
    ELSE IF Len(track) = 0 THEN EXC_EMPTY_TRACK
    ELSE EXC_NONE

\* variant of the entry checks: the method is not checked
EntryErrorTrackOnly(track, meth) ==
    IF Len(track) = 0 THEN EXC_EMPTY_TRACK ELSE EXC_NONE

\* the checks made before the loop
EntryError(track, meth) ==
    IF Len(track) = 0 THEN EXC_EMPTY_TRACK
    ELSE IF meth \notin {"nearest", "interp"} THEN EXC_INVALID_METHOD
    ELSE EXC_NONE

ProgressEvery == 100

\* the arguments of a call of match_photos_to_track
MatchArgs(ps, track, tz, cam, maxerr, meth, maxdist, cb) ==
    [photos |-> ps, track_points |-> track, photo_tz_offset |-> tz,
     camera_offset_sec |-> cam, max_error_sec |-> maxerr, method |-> meth,
     max_distance_m |-> maxdist, on_progress |-> cb]

\* the loop over the photos from photo k on, started with the items acc
RECURSIVE MatchLoop(_, _, _)
MatchLoop(a, k, acc) ==
    IF k > Len(a.photos) THEN [results |-> acc, exc |-> EXC_NONE]
    ELSE LET r == ProcessPhoto(a.photos[k], a.track_points,
                               a.photo_tz_offset, a.camera_offset_sec,
                               a.max_error_sec, a.method, a.max_distance_m,
                               a.on_progress)
         IN IF r.exc # EXC_NONE
            THEN [results |-> acc \o r.items, exc |-> r.exc]
            ELSE MatchLoop(a, k + 1, acc \o r.items)

\* match_photos_to_track as a function of its arguments: the list
\* returned, or the exception raised
MatchPhotosToTrack(a) ==
    IF EntryError(a.track_points, a.method) # EXC_NONE
    THEN [results |-> <<>>, exc |-> EntryError(a.track_points, a.method)]
    ELSE MatchLoop(a, 1, <<>>)

----------------------------------------------------------------------------
(* core/exif_io.py: write_gps_to_copy *)

\* The coordinates handed to the writer are floats with a GpsMantBits-bit
\* significand, held as integers counting units of 2^-GpsFracBits degree.
GpsUnit == Pow2(GpsFracBits)
GpsDeg(d) == d * GpsUnit

GpsUlp(a) ==
    IF BitLen(a) <= GpsMantBits THEN 1 ELSE Pow2(BitLen(a) - GpsMantBits)

\* the float nearest to a non-negative number of units, ties to even
GpsRound(a) ==
    LET u == GpsUlp(a)
        lo == (a \div u) * u
        twice == 2 * (a - lo)
    IN IF twice < u THEN lo
       ELSE IF twice > u THEN lo + u
       ELSE IF (lo \div u) % 2 = 0 THEN lo ELSE lo + u

\* int(x) of a non-negative float
GpsInt(x) == x \div GpsUnit

\* x - n and x * n for a float x >= 0 and a whole number n
GpsSubInt(x, n) == GpsRound(x - n * GpsUnit)
GpsMulInt(x, n) == GpsRound(x * n)

SexagesimalBase == 60
SecondsDenominator == 1000

EXC_OUT_OF_RANGE == "ValueError: coordinate out of range"
EXC_SOURCE_MISSING == "FileNotFoundError: source"
EXC_SOURCE_NOT_FILE == "ValueError: source is not a file"
EXC_MKDIR_DENIED == "PermissionError: destination directory"
EXC_DST_INVALID == "ValueError: destination path"
EXC_DUMP == "ValueError: piexif.dump"

\* variant of the range checks: the longitude is not checked
RangeErrorLatOnly(lat, lon) ==
    IF ~(-GpsDeg(LatLimit) <= lat /\ lat <= GpsDeg(LatLimit))
    THEN EXC_OUT_OF_RANGE
    ELSE EXC_NONE

\* the range checks at entry
RangeError(lat, lon) ==
    IF ~(-GpsDeg(LatLimit) <= lat /\ lat <= GpsDeg(LatLimit))
    THEN EXC_OUT_OF_RANGE
    ELSE IF ~(-GpsDeg(LonLimit) <= lon /\ lon <= GpsDeg(LonLimit))
    THEN EXC_OUT_OF_RANGE
    ELSE EXC_NONE

\* degrees, minutes and seconds of a coordinate as three rationals
DmsOf(x) ==
    LET lat_deg == Abs(x)
        lat_d == GpsInt(lat_deg)
        minutes == GpsMulInt(GpsSubInt(lat_deg, lat_d), SexagesimalBase)
        lat_m == GpsInt(minutes)
        lat_s == GpsMulInt(GpsSubInt(minutes, lat_m), SexagesimalBase)
    IN << <<lat_d, 1>>, <<lat_m, 1>>,
          <<GpsInt(GpsMulInt(lat_s, SecondsDenominator)),
            SecondsDenominator>> >>

\* variant of the GPS block: zero is given the references S and W
GpsIfdStrictRefs(lat, lon) ==
    [GPSLatitudeRef |-> IF lat > 0 THEN "N" ELSE "S",
     GPSLatitude |-> DmsOf(lat),
     GPSLongitudeRef |-> IF lon > 0 THEN "E" ELSE "W",
     GPSLongitude |-> DmsOf(lon)]

\* the GPS block written
GpsIfd(lat, lon) ==
    [GPSLatitudeRef |-> IF lat >= 0 THEN "N" ELSE "S",
     GPSLatitude |-> DmsOf(lat),
     GPSLongitudeRef |-> IF lon >= 0 THEN "E" ELSE "W",
     GPSLongitude |-> DmsOf(lon)]

\* the files the call touches: the source (a file, a directory or
\* missing), the destination's directory, and the destination with the
\* GPS block saved in it
FileSystem(src, dst_parent) ==
    [src |-> src, dst_parent |-> dst_parent, dst |-> "absent",
     dst_gps |-> None]

\* write_gps_to_copy as a function: what a call may do, given the source's
\* kind, whether the destination's directory exists, and the
\* coordinates.  An outcome is the exception raised or the value
\* returned, and what became of the destination file: left as it was
\* ("same"), absent or partial after a failed save, or written with the
\* GPS block
WriteOutcome(e, ret, dst, dst_gps) ==
    [exc |-> e, ret |-> ret, dst |-> dst, dst_gps |-> dst_gps]

WriteOutcomes(src, dst_parent, lat, lon) ==
    IF RangeError(lat, lon) # EXC_NONE
    THEN {WriteOutcome(RangeError(lat, lon), None, "same", None)}
    ELSE IF src = "missing"
    THEN {WriteOutcome(EXC_SOURCE_MISSING, None, "same", None)}
    ELSE IF src # "file"
    THEN {WriteOutcome(EXC_SOURCE_NOT_FILE, None, "same", None)}
    ELSE (IF dst_parent THEN {}
          ELSE {WriteOutcome(EXC_MKDIR_DENIED, None, "same", None),
                WriteOutcome(EXC_DST_INVALID, None, "same", None)})
         \cup {WriteOutcome(EXC_DUMP, None, "same", None),
               WriteOutcome(EXC_NONE, Some(FALSE), "same", None),
               WriteOutcome(EXC_NONE, Some(FALSE), "absent", None),
               WriteOutcome(EXC_NONE, Some(FALSE), "partial", None),
               WriteOutcome(EXC_NONE, Some(TRUE), "written",
                            Some(GpsIfd(lat, lon)))}

----------------------------------------------------------------------------
(* core/exif_io.py: write_gps_inplace *)

EXC_MKSTEMP == "OSError: mkstemp"
EXC_MOVE == "OSError: shutil.move"

\* the image file (a file, a directory or missing; its data and GPS
\* block) and the temporary file beside it
ImageAndTemp(image, has_dir) ==
    [image |-> image, has_dir |-> has_dir, data |-> "original",
     gps |-> None, temp |-> "absent", temp_gps |-> None]

\* variant: the temporary file is moved over the image whenever the write
\* did not raise
AfterWriteAlwaysMove(o) ==
    IF o.exc # EXC_NONE THEN "except" ELSE "move"

\* where the call goes after write_gps_to_copy: the except clause, the
\* move on success, the unlink on failure
AfterWrite(o) ==
    IF o.exc # EXC_NONE THEN "except"
    ELSE IF o.ret[1] THEN "move"
    ELSE "unlink"

\* write_gps_inplace as a function: what a call may do to the image
\* file, given its kind, whether its directory exists, and the
\* coordinates.  The temporary file is gone in every outcome
InplaceOutcome(e, ret, data, gps) ==
    [exc |-> e, ret |-> ret, data |-> data, gps |-> gps]

InplaceOutcomes(image, has_dir, lat, lon) ==
    {InplaceOutcome(EXC_MKSTEMP, None, "original", None)}
    \cup
    (IF ~has_dir THEN {}
     ELSE UNION {
            IF AfterWrite(o) = "except"
            THEN {InplaceOutcome(o.exc, None, "original", None)}
            ELSE IF AfterWrite(o) = "unlink"
            THEN {InplaceOutcome(EXC_NONE, Some(FALSE), "original", None)}
            ELSE {InplaceOutcome(EXC_NONE, Some(TRUE), o.dst, o.dst_gps),
                  InplaceOutcome(EXC_MOVE, None, "original", None),
                  InplaceOutcome(EXC_MOVE, None, "partial", None)} :
            o \in WriteOutcomes(image, TRUE, lat, lon) })

----------------------------------------------------------------------------
(* core/exif_io.py: read_exif_info, _parse_exif_datetime *)

EXC_FILE_NOT_FOUND == "FileNotFoundError: photo"
EXC_NOT_A_FILE == "ValueError: path is not a file"

\* An IFD is a function from the tags present in it to their values; the
\* dictionary piexif.load returns is a function from IFD names to IFDs.
GPSLatitudeRef == "GPSLatitudeRef"
GPSLatitude == "GPSLatitude"
GPSLongitudeRef == "GPSLongitudeRef"
GPSLongitude == "GPSLongitude"
GPSAltitude == "GPSAltitude"
DateTimeOriginal == "DateTimeOriginal"
DateTimeDigitized == "DateTimeDigitized"
DateTime == "DateTime"

\* variant of the GPS check: latitude and longitude are enough
HasGpsLatLonOnly(d) ==
    IF "GPS" \in DOMAIN d /\ DOMAIN d["GPS"] # {}
    THEN LET gps == d["GPS"]
         IN /\ GPSLatitude \in DOMAIN gps
            /\ GPSLongitude \in DOMAIN gps
    ELSE FALSE

\* has_gps of a loaded dictionary
HasGps(d) ==
    IF "GPS" \in DOMAIN d /\ DOMAIN d["GPS"] # {}
    THEN LET gps == d["GPS"]
         IN /\ GPSLatitude \in DOMAIN gps
            /\ GPSLongitude \in DOMAIN gps
            /\ GPSLatitudeRef \in DOMAIN gps
            /\ GPSLongitudeRef \in DOMAIN gps
    ELSE FALSE

\* A date-time text: its separators and its six numbers.  A field value
\* is bytes that decode to such a text or do not decode as UTF-8.
DtStr(date_sep, time_sep, year, month, day, hour, minute, second) ==
    [date_sep |-> date_sep, time_sep |-> time_sep, year |-> year,
     month |-> month, day |-> day, hour |-> hour, minute |-> minute,
     second |-> second]

FieldBytes(decodes, text) == [decodes |-> decodes, text |-> text]

IsLeap(year) == (year % 4 = 0 /\ year % 100 # 0) \/ year % 400 = 0

DaysInMonth(year, month) ==
    IF month = 2 THEN (IF IsLeap(year) THEN 29 ELSE 28)
    ELSE IF month \in {4, 6, 9, 11} THEN 30 ELSE 31

\* _parse_exif_datetime: strptime(dt_str, "%Y:%m:%d %H:%M:%S"), None when
\* it raises
ParseExifDatetime(dt_str) ==
    IF /\ dt_str.date_sep = ":" /\ dt_str.time_sep = ":"
       /\ dt_str.year >= 1 /\ dt_str.year <= 9999
       /\ dt_str.month >= 1 /\ dt_str.month <= 12
       /\ dt_str.day >= 1
       /\ dt_str.day <= DaysInMonth(dt_str.year, dt_str.month)
       /\ dt_str.hour >= 0 /\ dt_str.hour <= 23
       /\ dt_str.minute >= 0 /\ dt_str.minute <= 59
       /\ dt_str.second >= 0 /\ dt_str.second <= 59
    THEN Some(<<dt_str.year, dt_str.month, dt_str.day, dt_str.hour,
                dt_str.minute, dt_str.second>>)
    ELSE None

\* the try block of one field: decode the bytes, parse the text; an
\* exception leaves datetime_utc as it was (None)
TryField(value) ==
    IF value.decodes THEN ParseExifDatetime(value.text) ELSE None

\* variant: a later field that is present overwrites what was found
FallbackOverwrites(current, ifd, tag) ==
    IF tag \in DOMAIN ifd THEN TryField(ifd[tag]) ELSE current

\* one link of the fallback chain: if datetime_utc is None and tag in ifd
Fallback(current, ifd, tag) ==
    IF current = None /\ tag \in DOMAIN ifd THEN TryField(ifd[tag])
    ELSE current

\* read_exif_info as a function of the path's kind and of what
\* piexif.load gives for the file (None: it raises): the exception raised
\* or the pair returned
ReadExifInfo(path_kind, load) ==
    IF path_kind = "missing"
    THEN [exc |-> EXC_FILE_NOT_FOUND, ret |-> None]
    ELSE IF path_kind # "file"
    THEN [exc |-> EXC_NOT_A_FILE, ret |-> None]
    ELSE IF load = None
    THEN [exc |-> EXC_NONE, ret |-> Some(<<FALSE, None>>)]
    ELSE LET d == load[1]
             original == IF "Exif" \in DOMAIN d
                         THEN Fallback(None, d["Exif"], DateTimeOriginal)
                         ELSE None
             digitized == IF "Exif" \in DOMAIN d
                          THEN Fallback(original, d["Exif"],
                                        DateTimeDigitized)
                          ELSE original
             datetime_utc == IF digitized = None /\ "0th" \in DOMAIN d
                             THEN Fallback(digitized, d["0th"], DateTime)
                             ELSE digitized
         IN [exc |-> EXC_NONE, ret |-> Some(<<HasGps(d), datetime_utc>>)]

----------------------------------------------------------------------------
(* core/scan.py *)

EXC_FOLDER_MISSING == "FileNotFoundError: folder"
EXC_FOLDER_NOT_DIR == "ValueError: folder is not a directory"
EXC_FOLDER_DENIED == "PermissionError: folder"

\* the folder scanned and a directory in it
Folder == "photos"
SubFolder == "photos/sub"

\* an entry below the folder: the directory it is in, its
\* name and suffix, whether is_file() holds when the folder is listed,
\* what the path is when it is read (a file, a directory or missing) and
\* what piexif.load gives for it
Entry(dir, name, suffix, is_file, path_kind, load) ==
    [dir |-> dir, name |-> name, suffix |-> suffix, is_file |-> is_file,
     path_kind |-> path_kind, load |-> load]

\* str(img_path)
EntryPath(e) == e.dir \o "/" \o e.name \o e.suffix

\* f.suffix.lower(), on the suffixes that occur
Lower(suffix) ==
    IF suffix = ".JPG" THEN ".jpg"
    ELSE IF suffix = ".Jpeg" THEN ".jpeg"
    ELSE suffix

Extensions == {".jpg", ".jpeg"}

\* the files selected from the folder's entries, in listing order
ImageFiles(entries, recursive) ==
    SelectSeq(entries,
              LAMBDA f : /\ recursive \/ f.dir = Folder
                         /\ f.is_file
                         /\ Lower(f.suffix) \in Extensions)

\* variant of the classification: the capture time is looked at first, a
\* photo without one is put on no_time
ClassifyTimeFirst(path, has_gps, datetime_utc) ==
    IF datetime_utc = None
    THEN [list |-> "no_time",
          item |-> PhotoItem(path, FALSE, None, PHOTO_STATUS_NO_TIME)]
    ELSE IF has_gps
    THEN [list |-> "already_gps",
          item |-> PhotoItem(path, TRUE, datetime_utc,
                             PHOTO_STATUS_ALREADY_GPS)]
    ELSE [list |-> "need_process",
          item |-> PhotoItem(path, FALSE, datetime_utc,
                             PHOTO_STATUS_NEED_PROCESS)]

\* the if / elif / else on what read_exif_info returned: the list chosen
\* and the PhotoItem built for it
Classify(path, has_gps, datetime_utc) ==
    IF has_gps
    THEN [list |-> "already_gps",
          item |-> PhotoItem(path, TRUE, datetime_utc,
                             PHOTO_STATUS_ALREADY_GPS)]
    ELSE IF datetime_utc # None
    THEN [list |-> "need_process",
          item |-> PhotoItem(path, FALSE, datetime_utc,
                             PHOTO_STATUS_NEED_PROCESS)]
    ELSE [list |-> "no_time",
          item |-> PhotoItem(path, FALSE, None, PHOTO_STATUS_NO_TIME)]

\* the body of the loop for one file: FileNotFoundError skips the file,
\* any other exception (of read_exif_info or of the PhotoItem constructor)
\* puts it on no_time
ScanOne(f) ==
    LET r == ReadExifInfo(f.path_kind, f.load)
        unreadable == [list |-> "no_time",
                       item |-> PhotoItem(EntryPath(f), FALSE, None,
                                          PHOTO_STATUS_NO_TIME)]
    IN IF r.exc = EXC_FILE_NOT_FOUND THEN [list |-> "skip", item |-> None]
       ELSE IF r.exc # EXC_NONE THEN unreadable
       ELSE LET c == Classify(EntryPath(f), r.ret[1][1], r.ret[1][2])
            IN IF PhotoItemValid(c.item) THEN c ELSE unreadable

NoLists == [already_gps |-> <<>>, need_process |-> <<>>, no_time |-> <<>>]

\* the loop over image_files from file k on
RECURSIVE ScanLoop(_, _, _)
ScanLoop(files, k, lists) ==
    IF k > Len(files) THEN lists
    ELSE LET c == ScanOne(files[k])
         IN ScanLoop(files, k + 1,
                     IF c.list = "skip" THEN lists
                     ELSE [lists EXCEPT ![c.list] = Append(@, c.item)])

\* scan_photos as a function of the folder's kind and entries: the three
\* lists returned, or the exception raised
ScanPhotos(folder, entries, recursive) ==
    LET e == IF folder = "missing" THEN EXC_FOLDER_MISSING
             ELSE IF folder = "file" THEN EXC_FOLDER_NOT_DIR
             ELSE IF folder = "denied" THEN EXC_FOLDER_DENIED
             ELSE EXC_NONE
    IN IF e # EXC_NONE THEN [exc |-> e, lists |-> NoLists]
       ELSE [exc |-> EXC_NONE,
             lists |-> ScanLoop(ImageFiles(entries, recursive), 1, NoLists)]

----------------------------------------------------------------------------
(* core/pipeline.py *)

EXC_TRACK_TYPE == "ValueError: track type"
EXC_TRACK_PARSE == "ValueError: track file"
EXC_OUTPUT_DIR == "OSError: output directory"

\* a directory without files: a function from the names present to the
\* files
NoFiles == [n \in {} |-> None]

\* a capture time as the instant the matching computes with: the seconds
\* since the start of the day (the times scanned are all of one day, the
\* track's)
Timestamp(dt) == dt[4] * 3600 + dt[5] * 60 + dt[6]

\* the PhotoItems of a list as the matching reads them
AsInstants(items) ==
    [k \in 1..Len(items) |->
        IF items[k].datetime_utc = None THEN items[k]
        ELSE [items[k] EXCEPT
                !.datetime_utc = Some(Timestamp(items[k].datetime_utc[1]))]]

\* a coordinate of a MatchItem as the float the writers are given
ToGps(x) == x * Pow2(GpsFracBits - FracBits)

\* Path(photo_path).name, for the path of an entry
PathName(entries, photo_path) ==
    LET f == CHOOSE f \in {entries[k] : k \in 1..Len(entries)} :
                   EntryPath(f) = photo_path
    IN f.name \o f.suffix

\* variant: every photo scanned is handed to the matching
MatchInputAll(lists) ==
    lists.already_gps \o lists.need_process \o lists.no_time

\* the photos handed to match_photos_to_track
MatchInput(lists) == lists.need_process

\* the photo_tz_offset, camera_offset_sec, max_error_sec, match_method and
\* max_distance_m the pipeline is run with
PipelineArgs(ps, track) ==
    MatchArgs(ps, track, 0, 0, 2, MATCH_METHOD_INTERP, None, FALSE)

\* the condition of the write loop on a match result
ShouldWrite(match_item) ==
    /\ match_item.status = MATCH_STATUS_MATCHED
    /\ match_item.lat # None
    /\ match_item.lon # None

\* variant: an exception of the writer is not counted
CountedAsNoExcept(o) ==
    IF o.exc # EXC_NONE THEN "neither"
    ELSE IF o.ret[1] THEN "write_success"
    ELSE "write_failed"

\* the counter incremented for what the writer did: write_success when it
\* returned True, write_failed when it returned False or raised
CountedAs(o) ==
    IF o.exc # EXC_NONE THEN "write_failed"
    ELSE IF o.ret[1] THEN "write_success"
    ELSE "write_failed"

\* the number of items of a list with one of the statuses
CountStatus(items, statuses) ==
    Cardinality({k \in 1..Len(items) : items[k].status \in statuses})

----------------------------------------------------------------------------
(* The arguments a call may be given *)

\* track points: any order, duplicate timestamps and repeated points occur
TrackPointPool ==
    { p \in { TrackPoint(0, Deg(-1), Deg(-2)),
              TrackPoint(4, Deg(90), Deg(180)),
              TrackPoint(8, Deg(-1), Deg(-2)) } : TrackPointValid(p) }

\* the normalised instants of the photos to process, around the track
QueryTimes == {1, 2, 4, 8}

PathOf(q) == IF q = 1 THEN "q1.jpg"
             ELSE IF q = 2 THEN "q2.jpg" ELSE IF q = 4 THEN "q4.jpg"
             ELSE IF q = 8 THEN "q8.jpg" ELSE "q.jpg"

\* the local capture time that the offsets normalise to q
LocalTime(q, tz, cam) == q + SecondsPerHour * tz - cam

PhotoPool(tz, cam) ==
    { p \in { PhotoItem("gps.jpg", TRUE, Some(LocalTime(2, tz, cam)),
                        "already_gps"),
              PhotoItem("notime.jpg", FALSE, None, "no_time") }
             \cup { PhotoItem(PathOf(q), FALSE, Some(LocalTime(q, tz, cam)),
                              "need_process") : q \in QueryTimes } :
        PhotoItemValid(p) }

SeqsUpTo(S, n) == UNION { [1..k -> S] : k \in 0..n }

Methods == {"nearest", "interp", "linear"}
\* (photo_tz_offset, camera_offset_sec)
Offsets == {<<0, 0>>, <<15, 1>>, <<24, 0>>}
MaxErrors == {0, 2}
MaxDistances == {None, Some(500000)}

----------------------------------------------------------------------------
(* match_photos_to_track as a state machine *)

Init ==
    /\ pc = "idle"
    /\ photos = <<>>
    /\ track_points = <<>>
    /\ photo_tz_offset = 0
    /\ camera_offset_sec = 0
    /\ max_error_sec = 0
    /\ method = "interp"
    /\ max_distance_m = None
    /\ on_progress = FALSE
    /\ match_results = <<>>
    /\ progress = <<>>
    /\ pos = 0
    /\ exc = EXC_NONE
    /\ conv_pc = "idle"
    /\ conv_photo_dt = 0
    /\ conv_tz_offset = 0
    /\ conv_camera_offset_sec = 0
    /\ conv_dt = Datetime(0, None)
    /\ w_pc = "idle"
    /\ w_lat = 0
    /\ w_lon = 0
    /\ fs = FileSystem("missing", FALSE)
    /\ fs_at_call = FileSystem("missing", FALSE)
    /\ io_log = <<>>
    /\ gps_ifd = None
    /\ w_exc = EXC_NONE
    /\ w_ret = None
    /\ r_pc = "idle"
    /\ r_path = "missing"
    /\ r_load = None
    /\ exif_dict = None
    /\ r_has_gps = FALSE
    /\ r_datetime_utc = None
    /\ r_exc = EXC_NONE
    /\ r_ret = None
    /\ b_pc = "idle"
    /\ b_track = <<>>
    /\ b_query = 0
    /\ b_idx = 0
    /\ b_before = None
    /\ b_after = None
    /\ sc_pc = "idle"
    /\ sc_folder = "missing"
    /\ sc_recursive = FALSE
    /\ sc_entries = <<>>
    /\ image_files = <<>>
    /\ sc_done = 0
    /\ already_gps = <<>>
    /\ need_process = <<>>
    /\ no_time = <<>>
    /\ sc_exc = EXC_NONE
    /\ ip_pc = "idle"
    /\ ip_lat = 0
    /\ ip_lon = 0
    /\ ip_fs = ImageAndTemp("missing", FALSE)
    /\ ip_fs_at_call = ImageAndTemp("missing", FALSE)
    /\ ip_write = None
    /\ ip_exc = EXC_NONE
    /\ ip_ret = None
    /\ p_pc = "idle"
    /\ p_folder = "missing"
    /\ p_entries = <<>>
    /\ p_recursive = FALSE
    /\ p_output_mode = "copy"
    /\ p_track_type = "gpx"
    /\ p_lists = NoLists
    /\ p_track = <<>>
    /\ p_match_results = <<>>
    /\ p_pos = 0
    /\ write_success = 0
    /\ write_failed = 0
    /\ p_files = NoFiles
    /\ p_output = NoFiles
    /\ p_calls = <<>>
    /\ p_exc = EXC_NONE
    /\ p_summary = None
    /\ ui_pc = "start"
    /\ app_need_process = <<>>
    /\ app_track = <<>>
    /\ app_photo_tz_offset = 0
    /\ app_camera_offset_sec = 0
    /\ app_max_error_sec = 0
    /\ app_match_method = "interp"
    /\ app_max_distance_m = None
    /\ app_match_results = <<>>
    /\ ui_previewed = None
    /\ ui_processed = None

\* entry: the two checks, then the first progress call
Call ==
    /\ pc = "idle"
    /\ \E off \in Offsets :
         /\ photo_tz_offset' = off[1]
         /\ camera_offset_sec' = off[2]
         /\ photos' \in SeqsUpTo(PhotoPool(off[1], off[2]), MaxPhotos)
    /\ track_points' \in SeqsUpTo(TrackPointPool, MaxTrack)
    /\ max_error_sec' \in MaxErrors
    /\ method' \in Methods
    /\ max_distance_m' \in MaxDistances
    /\ on_progress' \in BOOLEAN
    /\ match_results' = <<>>
    /\ exc' = EntryError(track_points', method')
    /\ IF exc' # EXC_NONE
       THEN /\ pc' = "raised"
            /\ pos' = 0
            /\ progress' = <<>>
       ELSE /\ pc' = "loop"
            /\ pos' = 1
            /\ progress' = IF on_progress' THEN << <<0, Len(photos')>> >>
                           ELSE <<>>
    /\ UNCHANGED nonMatchVars

\* variant: the loop remembers the paths it has handled and reports a
\* photo whose path it has seen before as unmatched
ProcessNextSeenOnce ==
    /\ pc = "loop"
    /\ pos <= Len(photos)
    /\ LET seen == \E j \in 1..(pos - 1) : photos[j].path = photos[pos].path
           r == IF seen
                THEN Construct(MatchItem(photos[pos].path, None, None, None,
                                         None, MATCH_STATUS_UNMATCHED,
                                         Some("duplicate")))
                ELSE ProcessPhoto(photos[pos], track_points, photo_tz_offset,
                                  camera_offset_sec, max_error_sec, method,
                                  max_distance_m, on_progress)
       IN /\ match_results' = match_results \o r.items
          /\ exc' = r.exc
          /\ pc' = IF r.exc = EXC_NONE THEN "loop" ELSE "raised"
          /\ pos' = IF r.exc = EXC_NONE THEN pos + 1 ELSE pos
    /\ progress' = IF on_progress /\ pos % ProgressEvery = 0
                   THEN Append(progress, <<pos, Len(photos)>>)
                   ELSE progress
    /\ UNCHANGED <<photos, track_points, photo_tz_offset, camera_offset_sec,
                   max_error_sec, method, max_distance_m, on_progress>>
    /\ UNCHANGED nonMatchVars

\* one iteration of: for idx, photo in enumerate(photos, 1)
ProcessNext ==
    /\ pc = "loop"
    /\ pos <= Len(photos)
    /\ LET r == ProcessPhoto(photos[pos], track_points, photo_tz_offset,
                             camera_offset_sec, max_error_sec, method,
                             max_distance_m, on_progress)
       IN /\ match_results' = match_results \o r.items
          /\ exc' = r.exc
          /\ pc' = IF r.exc = EXC_NONE THEN "loop" ELSE "raised"
          /\ pos' = IF r.exc = EXC_NONE THEN pos + 1 ELSE pos
    /\ progress' = IF on_progress /\ pos % ProgressEvery = 0
                   THEN Append(progress, <<pos, Len(photos)>>)
                   ELSE progress
    /\ UNCHANGED <<photos, track_points, photo_tz_offset, camera_offset_sec,
                   max_error_sec, method, max_distance_m, on_progress>>
    /\ UNCHANGED nonMatchVars

\* after the loop: the last progress call and the return
Return ==
    /\ pc = "loop"
    /\ pos > Len(photos)
    /\ pc' = "done"
    /\ progress' = IF on_progress
                   THEN Append(progress, <<Len(photos), Len(photos)>>)
                   ELSE progress
    /\ UNCHANGED <<photos, track_points, photo_tz_offset, camera_offset_sec,
                   max_error_sec, method, max_distance_m, on_progress,
                   match_results, pos, exc>>
    /\ UNCHANGED nonMatchVars

Next == Call \/ ProcessNext \/ Return

Spec == Init /\ [][Next]_vars

----------------------------------------------------------------------------
(* _convert_photo_time_to_utc as a state machine *)

ConvLocalTimes == {0, 59, 3600, 86399}
ConvTzOffsets == {-12, -5, 0, 8, 14, 24}
ConvCameraOffsets == {-30, 0, 1, 3600}

\* the call, with a naive local time
ConvCall ==
    /\ conv_pc = "idle"
    /\ conv_photo_dt' \in ConvLocalTimes
    /\ conv_tz_offset' \in ConvTzOffsets
    /\ conv_camera_offset_sec' \in ConvCameraOffsets
    /\ conv_dt' = Datetime(conv_photo_dt', None)
    /\ conv_pc' = "localize"
    /\ UNCHANGED nonConvVars

\* tz = timezone(timedelta(hours=tz_offset)); photo_dt.replace(tzinfo=tz)
ConvLocalize ==
    /\ conv_pc = "localize"
    /\ IF ConvertRaises(conv_tz_offset)
       THEN /\ conv_pc' = "raised"
            /\ UNCHANGED conv_dt
       ELSE /\ conv_pc' = "astimezone"
            /\ conv_dt' = ReplaceTzinfo(conv_dt,
                              Some(SecondsPerHour * conv_tz_offset))
    /\ UNCHANGED <<conv_photo_dt, conv_tz_offset, conv_camera_offset_sec>>
    /\ UNCHANGED nonConvVars

\* photo_dt_utc = photo_dt_tz.astimezone(timezone.utc)
ConvAsTimezoneUtc ==
    /\ conv_pc = "astimezone"
    /\ conv_dt' = AsTimezone(conv_dt, 0)
    /\ conv_pc' = "offset"
    /\ UNCHANGED <<conv_photo_dt, conv_tz_offset, conv_camera_offset_sec>>
    /\ UNCHANGED nonConvVars

\* if camera_offset_sec != 0: photo_dt_utc += timedelta(seconds=...)
ConvCameraOffset ==
    /\ conv_pc = "offset"
    /\ conv_dt' = IF conv_camera_offset_sec # 0
                  THEN AddSeconds(conv_dt, conv_camera_offset_sec)
                  ELSE conv_dt
    /\ conv_pc' = "return"
    /\ UNCHANGED <<conv_photo_dt, conv_tz_offset, conv_camera_offset_sec>>
    /\ UNCHANGED nonConvVars

\* return photo_dt_utc.replace(tzinfo=None)
ConvReturn ==
    /\ conv_pc = "return"
    /\ conv_dt' = ReplaceTzinfo(conv_dt, None)
    /\ conv_pc' = "done"
    /\ UNCHANGED <<conv_photo_dt, conv_tz_offset, conv_camera_offset_sec>>
    /\ UNCHANGED nonConvVars

NextConv ==
    ConvCall \/ ConvLocalize \/ ConvAsTimezoneUtc \/ ConvCameraOffset
        \/ ConvReturn

SpecConv == Init /\ [][NextConv]_vars

----------------------------------------------------------------------------
(* write_gps_to_copy as a state machine *)

\* next float above a positive float
GpsNextAbove(x) == x + GpsUlp(x + 1)

\* latitudes and longitudes: zero, the limits, the floats next outside the
\* limits, values with minutes and seconds on both hemispheres, and the
\* floats next below one degree and next below the longitude limit
WriteLatitudes ==
    {0, GpsDeg(LatLimit), -GpsDeg(LatLimit),
     GpsNextAbove(GpsDeg(LatLimit)), -GpsNextAbove(GpsDeg(LatLimit)),
     GpsDeg(1) \div 4 + 275, -(GpsDeg(31) + GpsDeg(1) \div 2 + 1),
     -(GpsDeg(1) - 1)}
WriteLongitudes ==
    {0, GpsDeg(LonLimit), -GpsDeg(LonLimit),
     GpsNextAbove(GpsDeg(LonLimit)), -GpsNextAbove(GpsDeg(LonLimit)),
     -(GpsDeg(1) \div 4 + 277), GpsDeg(LonLimit) - GpsUlp(GpsDeg(LonLimit) - 1)}

WriteCall ==
    /\ w_pc = "idle"
    /\ w_lat' \in WriteLatitudes
    /\ w_lon' \in WriteLongitudes
    /\ \E src \in {"file", "dir", "missing"}, dst_parent \in BOOLEAN :
          fs' = FileSystem(src, dst_parent)
    /\ fs_at_call' = fs'
    /\ io_log' = <<>>
    /\ gps_ifd' = None
    /\ w_exc' = EXC_NONE
    /\ w_ret' = None
    /\ w_pc' = "validate"
    /\ UNCHANGED nonWriteVars

\* the two range checks
WriteValidate ==
    /\ w_pc = "validate"
    /\ w_exc' = RangeError(w_lat, w_lon)
    /\ w_pc' = IF w_exc' # EXC_NONE THEN "raised" ELSE "check_source"
    /\ UNCHANGED <<w_lat, w_lon, fs, fs_at_call, io_log, gps_ifd, w_ret>>
    /\ UNCHANGED nonWriteVars

\* src.exists(), src.is_file()
WriteCheckSource ==
    /\ w_pc = "check_source"
    /\ io_log' = IF fs.src = "missing" THEN Append(io_log, "exists(src)")
                 ELSE io_log \o <<"exists(src)", "is_file(src)">>
    /\ w_exc' = IF fs.src = "missing" THEN EXC_SOURCE_MISSING
                ELSE IF fs.src # "file" THEN EXC_SOURCE_NOT_FILE
                ELSE EXC_NONE
    /\ w_pc' = IF w_exc' # EXC_NONE THEN "raised" ELSE "mkdir"
    /\ UNCHANGED <<w_lat, w_lon, fs, fs_at_call, gps_ifd, w_ret>>
    /\ UNCHANGED nonWriteVars

\* dst.parent.mkdir(parents=True, exist_ok=True)
WriteMkdir ==
    /\ w_pc = "mkdir"
    /\ io_log' = Append(io_log, "mkdir(dst.parent)")
    /\ \E outcome \in {"ok", "denied", "invalid"} :
          /\ fs.dst_parent => outcome = "ok"
          /\ IF outcome = "ok"
             THEN /\ fs' = [fs EXCEPT !.dst_parent = TRUE]
                  /\ w_exc' = EXC_NONE
                  /\ w_pc' = "load"
             ELSE /\ fs' = fs
                  /\ w_exc' = IF outcome = "denied" THEN EXC_MKDIR_DENIED
                              ELSE EXC_DST_INVALID
                  /\ w_pc' = "raised"
    /\ UNCHANGED <<w_lat, w_lon, fs_at_call, gps_ifd, w_ret>>
    /\ UNCHANGED nonWriteVars

\* piexif.load(src_path): the EXIF found, or an empty one when it is
\* missing or damaged; either way the GPS block is replaced later
WriteLoadExif ==
    /\ w_pc = "load"
    /\ io_log' = Append(io_log, "load(src)")
    /\ w_pc' = "encode"
    /\ UNCHANGED <<w_lat, w_lon, fs, fs_at_call, gps_ifd, w_exc, w_ret>>
    /\ UNCHANGED nonWriteVars

\* the GPS block: references and degrees, minutes, seconds
WriteEncode ==
    /\ w_pc = "encode"
    /\ gps_ifd' = Some(GpsIfd(w_lat, w_lon))
    /\ w_pc' = "dump"
    /\ UNCHANGED <<w_lat, w_lon, fs, fs_at_call, io_log, w_exc, w_ret>>
    /\ UNCHANGED nonWriteVars

\* piexif.dump(exif_dict): a ValueError is raised on, any other
\* exception makes the call return False
WriteDump ==
    /\ w_pc = "dump"
    /\ \E outcome \in {"ok", "ValueError", "other"} :
          /\ w_exc' = IF outcome = "ValueError" THEN EXC_DUMP ELSE EXC_NONE
          /\ w_ret' = IF outcome = "other" THEN Some(FALSE) ELSE w_ret
          /\ w_pc' = IF outcome = "ok" THEN "save"
                     ELSE IF outcome = "ValueError" THEN "raised"
                     ELSE "done"
    /\ UNCHANGED <<w_lat, w_lon, fs, fs_at_call, io_log, gps_ifd>>
    /\ UNCHANGED nonWriteVars

\* Image.open(src_path), img.save(dst_path, exif=exif_bytes): True when
\* saved, False on any failure, which may leave a partial destination
WriteSave ==
    /\ w_pc = "save"
    /\ \E outcome \in {"saved", "open_failed", "save_failed"} :
          /\ io_log' = IF outcome = "open_failed"
                       THEN Append(io_log, "open(src)")
                       ELSE io_log \o <<"open(src)", "save(dst)">>
          /\ \E left \in {"absent", "partial"} :
                fs' = IF outcome = "saved"
                      THEN [fs EXCEPT !.dst = "written", !.dst_gps = gps_ifd]
                      ELSE IF outcome = "save_failed"
                      THEN [fs EXCEPT !.dst = left]
                      ELSE fs
          /\ w_ret' = Some(outcome = "saved")
    /\ w_pc' = "done"
    /\ UNCHANGED <<w_lat, w_lon, fs_at_call, gps_ifd, w_exc>>
    /\ UNCHANGED nonWriteVars

NextWrite ==
    WriteCall \/ WriteValidate \/ WriteCheckSource \/ WriteMkdir
        \/ WriteLoadExif \/ WriteEncode \/ WriteDump \/ WriteSave

SpecWrite == Init /\ [][NextWrite]_vars

----------------------------------------------------------------------------
(* read_exif_info as a state machine *)

\* field values: two valid times, dashes for colons, the all-zero time of
\* an unset clock, 29 February of a common year, bytes that do not decode
FieldValues ==
    {FieldBytes(TRUE, DtStr(":", ":", 2024, 2, 29, 10, 0, 0)),
     FieldBytes(TRUE, DtStr(":", ":", 2023, 7, 1, 23, 59, 59)),
     FieldBytes(TRUE, DtStr("-", ":", 2024, 2, 29, 10, 0, 0)),
     FieldBytes(TRUE, DtStr(":", ":", 0, 0, 0, 0, 0, 0)),
     FieldBytes(TRUE, DtStr(":", ":", 2023, 2, 29, 10, 0, 0)),
     FieldBytes(FALSE, DtStr(":", ":", 2024, 2, 29, 10, 0, 0))}

RequiredGpsTags == {GPSLatitude, GPSLongitude, GPSLatitudeRef, GPSLongitudeRef}

\* GPS blocks: every subset of the four required tags, the four with an
\* altitude, and an altitude alone
GpsIfds ==
    { [t \in T |-> TRUE] :
        T \in SUBSET RequiredGpsTags
              \cup {RequiredGpsTags \cup {GPSAltitude}, {GPSAltitude}} }

ExifIfds ==
    UNION { [T -> FieldValues] :
              T \in SUBSET {DateTimeOriginal, DateTimeDigitized} }

ZerothIfds == UNION { [T -> FieldValues] : T \in SUBSET {DateTime} }

\* a loaded dictionary; g, e, z are None for a missing key
ExifDict(g, e, z) ==
    LET keys == (IF g # None THEN {"GPS"} ELSE {})
                  \cup (IF e # None THEN {"Exif"} ELSE {})
                  \cup (IF z # None THEN {"0th"} ELSE {})
    IN [k \in keys |-> IF k = "GPS" THEN g[1]
                       ELSE IF k = "Exif" THEN e[1] ELSE z[1]]

Optional(S) == {None} \cup { Some(x) : x \in S }

ExifDicts ==
    { ExifDict(g, e, z) : g \in Optional(GpsIfds), e \in Optional(ExifIfds),
                          z \in Optional(ZerothIfds) }

\* the call: a path, and for a file what piexif.load does with it (None:
\* it raises)
ReadCall ==
    /\ r_pc = "idle"
    /\ r_path' \in {"file", "dir", "missing"}
    /\ r_load' \in IF r_path' = "file" THEN Optional(ExifDicts) ELSE {None}
    /\ exif_dict' = None
    /\ r_has_gps' = FALSE
    /\ r_datetime_utc' = None
    /\ r_exc' = EXC_NONE
    /\ r_ret' = None
    /\ r_pc' = "check_path"
    /\ UNCHANGED nonReadVars

\* path.exists(), path.is_file()
ReadCheckPath ==
    /\ r_pc = "check_path"
    /\ r_exc' = IF r_path = "missing" THEN EXC_FILE_NOT_FOUND
                ELSE IF r_path # "file" THEN EXC_NOT_A_FILE
                ELSE EXC_NONE
    /\ r_pc' = IF r_exc' # EXC_NONE THEN "raised" ELSE "load"
    /\ UNCHANGED <<r_path, r_load, exif_dict, r_has_gps, r_datetime_utc,
                   r_ret>>
    /\ UNCHANGED nonReadVars

\* exif_dict = piexif.load(...); when it raises: return False, None
ReadLoad ==
    /\ r_pc = "load"
    /\ exif_dict' = r_load
    /\ IF r_load = None
       THEN /\ r_ret' = Some(<<FALSE, None>>)
            /\ r_pc' = "done"
       ELSE /\ r_ret' = r_ret
            /\ r_pc' = "gps"
    /\ UNCHANGED <<r_path, r_load, r_has_gps, r_datetime_utc, r_exc>>
    /\ UNCHANGED nonReadVars

\* the GPS presence check
ReadGps ==
    /\ r_pc = "gps"
    /\ r_has_gps' = HasGps(exif_dict[1])
    /\ r_pc' = "original"
    /\ UNCHANGED <<r_path, r_load, exif_dict, r_datetime_utc, r_exc, r_ret>>
    /\ UNCHANGED nonReadVars

\* if 'Exif' in exif_dict: DateTimeOriginal
ReadOriginal ==
    /\ r_pc = "original"
    /\ r_datetime_utc' =
          IF "Exif" \in DOMAIN exif_dict[1]
          THEN Fallback(None, exif_dict[1]["Exif"], DateTimeOriginal)
          ELSE None
    /\ r_pc' = "digitized"
    /\ UNCHANGED <<r_path, r_load, exif_dict, r_has_gps, r_exc, r_ret>>
    /\ UNCHANGED nonReadVars

\* if 'Exif' in exif_dict: DateTimeDigitized
ReadDigitized ==
    /\ r_pc = "digitized"
    /\ r_datetime_utc' =
          IF "Exif" \in DOMAIN exif_dict[1]
          THEN Fallback(r_datetime_utc, exif_dict[1]["Exif"],
                        DateTimeDigitized)
          ELSE r_datetime_utc
    /\ r_pc' = "datetime"
    /\ UNCHANGED <<r_path, r_load, exif_dict, r_has_gps, r_exc, r_ret>>
    /\ UNCHANGED nonReadVars

\* if datetime_utc is None and '0th' in exif_dict: DateTime
ReadDateTime ==
    /\ r_pc = "datetime"
    /\ r_datetime_utc' =
          IF r_datetime_utc = None /\ "0th" \in DOMAIN exif_dict[1]
          THEN Fallback(r_datetime_utc, exif_dict[1]["0th"], DateTime)
          ELSE r_datetime_utc
    /\ r_pc' = "return"
    /\ UNCHANGED <<r_path, r_load, exif_dict, r_has_gps, r_exc, r_ret>>
    /\ UNCHANGED nonReadVars

\* return has_gps, datetime_utc
ReadReturn ==
    /\ r_pc = "return"
    /\ r_ret' = Some(<<r_has_gps, r_datetime_utc>>)
    /\ r_pc' = "done"
    /\ UNCHANGED <<r_path, r_load, exif_dict, r_has_gps, r_datetime_utc,
                   r_exc>>
    /\ UNCHANGED nonReadVars

NextRead ==
    ReadCall \/ ReadCheckPath \/ ReadLoad \/ ReadGps \/ ReadOriginal
        \/ ReadDigitized \/ ReadDateTime \/ ReadReturn

SpecRead == Init /\ [][NextRead]_vars

----------------------------------------------------------------------------
(* The bracket lookup of match_photos_to_track as a state machine *)

\* points at three instants, two of them at the same instant
BracketPoints == TrackPointPool \cup {TrackPoint(4, Deg(0), Deg(0))}

\* normalised photo times before, at, between and after the track times
BracketQueries == {-1, 0, 2, 4, 6, 8, 9}

\* a non-empty track in any order and a photo time
BracketCall ==
    /\ b_pc = "idle"
    /\ b_track' \in SeqsUpTo(BracketPoints, MaxBracketTrack) \ {<<>>}
    /\ b_query' \in BracketQueries
    /\ b_idx' = 0
    /\ b_before' = None
    /\ b_after' = None
    /\ b_pc' = "bisect"
    /\ UNCHANGED nonBracketVars

\* idx = bisect.bisect_left(track_times, photo_dt_utc)
BracketBisect ==
    /\ b_pc = "bisect"
    /\ b_idx' = BisectLeft(TrackTimes(b_track), b_query, 0, Len(b_track))
    /\ b_pc' = "select"
    /\ UNCHANGED <<b_track, b_query, b_before, b_after>>
    /\ UNCHANGED nonBracketVars

\* the three branches on idx: the first point alone, the last point alone,
\* or track_points[idx - 1] and track_points[idx]
BracketSelect ==
    /\ b_pc = "select"
    /\ IF b_idx = 0
       THEN /\ b_before' = None
            /\ b_after' = Some(b_track[1])
       ELSE IF b_idx >= Len(b_track)
       THEN /\ b_before' = Some(b_track[Len(b_track)])
            /\ b_after' = None
       ELSE /\ b_before' = Some(b_track[b_idx])
            /\ b_after' = Some(b_track[b_idx + 1])
    /\ b_pc' = "done"
    /\ UNCHANGED <<b_track, b_query, b_idx>>
    /\ UNCHANGED nonBracketVars

NextBracket == BracketCall \/ BracketBisect \/ BracketSelect

SpecBracket == Init /\ [][NextBracket]_vars

----------------------------------------------------------------------------
(* scan_photos as a state machine *)

ValidTime == FieldBytes(TRUE, DtStr(":", ":", 2024, 2, 29, 10, 0, 0))
MalformedTime == FieldBytes(TRUE, DtStr("-", ":", 2024, 2, 29, 10, 0, 0))

FullGps == [t \in RequiredGpsTags |-> TRUE]
PartialGps == [t \in RequiredGpsTags \ {GPSLongitudeRef} |-> TRUE]

\* what piexif.load gives for the files scanned: GPS with and without a
\* capture time, a capture time without GPS, a partial GPS block with a
\* time in the 0th IFD only, a malformed time, and a load that raises
ScanLoads ==
    {Some(ExifDict(Some(FullGps),
                   Some([t \in {DateTimeOriginal} |-> ValidTime]), None)),
     Some(ExifDict(Some(FullGps), None, None)),
     Some(ExifDict(None, Some([t \in {DateTimeDigitized} |-> ValidTime]),
                   None)),
     Some(ExifDict(Some(PartialGps), None,
                   Some([t \in {DateTime} |-> ValidTime]))),
     Some(ExifDict(None, Some([t \in {DateTimeOriginal} |-> MalformedTime]),
                   None)),
     None}

\* entries: photos in the folder and in its subdirectory, with suffixes
\* in both cases and a foreign one; a listed file may be gone when it is
\* read or replaced by a directory; a directory may carry a photo's name
ScanEntries ==
    { Entry(dir, "a", suffix, TRUE, "file", load) :
        dir \in {Folder, SubFolder}, suffix \in {".jpg", ".JPG", ".txt"},
        load \in ScanLoads }
    \cup { Entry(dir, "a", suffix, TRUE, "missing", None) :
             dir \in {Folder, SubFolder}, suffix \in {".jpg", ".JPG"} }
    \cup { Entry(Folder, "a", ".jpg", FALSE, "dir", None),
           Entry(SubFolder, "a", ".jpg", TRUE, "dir", None) }

\* the entries of a folder have different paths
ScanFolders ==
    { es \in SeqsUpTo(ScanEntries, MaxFiles) :
        \A j, k \in 1..Len(es) :
            j # k => EntryPath(es[j]) # EntryPath(es[k]) }

\* the call
ScanCall ==
    /\ sc_pc = "idle"
    /\ sc_folder' \in {"dir", "file", "missing", "denied"}
    /\ sc_recursive' \in BOOLEAN
    /\ sc_entries' \in IF sc_folder' = "dir" THEN ScanFolders ELSE {<<>>}
    /\ sc_pc' = "check_folder"
    /\ UNCHANGED <<image_files, sc_done, already_gps, need_process, no_time,
                   sc_exc>>
    /\ UNCHANGED nonScanVars

\* folder.exists(), folder.is_dir(), list(folder.iterdir())
ScanCheckFolder ==
    /\ sc_pc = "check_folder"
    /\ sc_exc' = IF sc_folder = "missing" THEN EXC_FOLDER_MISSING
                 ELSE IF sc_folder = "file" THEN EXC_FOLDER_NOT_DIR
                 ELSE IF sc_folder = "denied" THEN EXC_FOLDER_DENIED
                 ELSE EXC_NONE
    /\ sc_pc' = IF sc_exc' # EXC_NONE THEN "raised" ELSE "list"
    /\ UNCHANGED <<sc_folder, sc_recursive, sc_entries, image_files, sc_done,
                   already_gps, need_process, no_time>>
    /\ UNCHANGED nonScanVars

\* image_files: folder.rglob('*') or folder.iterdir(), filtered; a
\* subdirectory that may not be read raises PermissionError
ScanList ==
    /\ sc_pc = "list"
    /\ \E readable \in BOOLEAN :
          /\ ~sc_recursive => readable
          /\ IF readable
             THEN /\ image_files' = ImageFiles(sc_entries, sc_recursive)
                  /\ sc_exc' = EXC_NONE
                  /\ sc_pc' = "loop"
             ELSE /\ image_files' = image_files
                  /\ sc_exc' = EXC_FOLDER_DENIED
                  /\ sc_pc' = "raised"
    /\ UNCHANGED <<sc_folder, sc_recursive, sc_entries, sc_done, already_gps,
                   need_process, no_time>>
    /\ UNCHANGED nonScanVars

\* one iteration of: for idx, img_path in enumerate(image_files, 1)
ScanNext ==
    /\ sc_pc = "loop"
    /\ sc_done < Len(image_files)
    /\ LET c == ScanOne(image_files[sc_done + 1])
       IN /\ already_gps' = IF c.list = "already_gps"
                            THEN Append(already_gps, c.item)
                            ELSE already_gps
          /\ need_process' = IF c.list = "need_process"
                             THEN Append(need_process, c.item)
                             ELSE need_process
          /\ no_time' = IF c.list = "no_time" THEN Append(no_time, c.item)
                        ELSE no_time
    /\ sc_done' = sc_done + 1
    /\ UNCHANGED <<sc_pc, sc_folder, sc_recursive, sc_entries, image_files,
                   sc_exc>>
    /\ UNCHANGED nonScanVars

\* return already_gps, need_process, no_time
ScanReturn ==
    /\ sc_pc = "loop"
    /\ sc_done >= Len(image_files)
    /\ sc_pc' = "done"
    /\ UNCHANGED <<sc_folder, sc_recursive, sc_entries, image_files, sc_done,
                   already_gps, need_process, no_time, sc_exc>>
    /\ UNCHANGED nonScanVars

NextScan ==
    ScanCall \/ ScanCheckFolder \/ ScanList \/ ScanNext \/ ScanReturn

SpecScan == Init /\ [][NextScan]_vars

----------------------------------------------------------------------------
(* write_gps_inplace as a state machine *)

\* the call: the image path may name a file, a directory or nothing, in a
\* directory that exists or not
InplaceCall ==
    /\ ip_pc = "idle"
    /\ ip_lat' \in WriteLatitudes
    /\ ip_lon' \in WriteLongitudes
    /\ \E image \in {"file", "dir", "missing"}, has_dir \in BOOLEAN :
          /\ image # "missing" => has_dir
          /\ ip_fs' = ImageAndTemp(image, has_dir)
    /\ ip_fs_at_call' = ip_fs'
    /\ ip_write' = None
    /\ ip_exc' = EXC_NONE
    /\ ip_ret' = None
    /\ ip_pc' = "mkstemp"
    /\ UNCHANGED nonInplaceVars

\* tempfile.mkstemp(suffix='.jpg', dir=Path(image_path).parent), before
\* the try: an empty file, or OSError when the directory is missing or
\* may not be written
InplaceMkstemp ==
    /\ ip_pc = "mkstemp"
    /\ \E created \in BOOLEAN :
          /\ ~ip_fs.has_dir => ~created
          /\ IF created
             THEN /\ ip_fs' = [ip_fs EXCEPT !.temp = "empty"]
                  /\ ip_exc' = EXC_NONE
                  /\ ip_pc' = "write"
             ELSE /\ ip_fs' = ip_fs
                  /\ ip_exc' = EXC_MKSTEMP
                  /\ ip_pc' = "raised"
    /\ UNCHANGED <<ip_lat, ip_lon, ip_fs_at_call, ip_write, ip_ret>>
    /\ UNCHANGED nonInplaceVars

\* success = write_gps_to_copy(image_path, temp_path, lat, lon)
InplaceWrite ==
    /\ ip_pc = "write"
    /\ \E o \in WriteOutcomes(ip_fs.image, TRUE, ip_lat, ip_lon) :
          /\ ip_write' = Some(o)
          /\ ip_fs' = IF o.dst = "same" THEN ip_fs
                      ELSE [ip_fs EXCEPT !.temp = o.dst,
                                         !.temp_gps = o.dst_gps]
          /\ ip_exc' = o.exc
          /\ ip_pc' = AfterWrite(o)
    /\ UNCHANGED <<ip_lat, ip_lon, ip_fs_at_call, ip_ret>>
    /\ UNCHANGED nonInplaceVars

\* shutil.move(temp_path, image_path); return True.  When the move fails
\* the exception goes to the except clause; a rename that failed leaves
\* the image as it was, a copy that failed may leave it partly written
InplaceMove ==
    /\ ip_pc = "move"
    /\ \E moved \in BOOLEAN, left \in {"original", "partial"} :
          IF moved
          THEN /\ ip_fs' = [ip_fs EXCEPT !.data = ip_fs.temp,
                                         !.gps = ip_fs.temp_gps,
                                         !.temp = "absent",
                                         !.temp_gps = None]
               /\ ip_ret' = Some(TRUE)
               /\ ip_exc' = EXC_NONE
               /\ ip_pc' = "done"
          ELSE /\ ip_fs' = [ip_fs EXCEPT !.data = left]
               /\ ip_ret' = ip_ret
               /\ ip_exc' = EXC_MOVE
               /\ ip_pc' = "except"
    /\ UNCHANGED <<ip_lat, ip_lon, ip_fs_at_call, ip_write>>
    /\ UNCHANGED nonInplaceVars

\* Path(temp_path).unlink(missing_ok=True); return False
InplaceUnlink ==
    /\ ip_pc = "unlink"
    /\ ip_fs' = [ip_fs EXCEPT !.temp = "absent", !.temp_gps = None]
    /\ ip_ret' = Some(FALSE)
    /\ ip_pc' = "done"
    /\ UNCHANGED <<ip_lat, ip_lon, ip_fs_at_call, ip_write, ip_exc>>
    /\ UNCHANGED nonInplaceVars

\* except Exception: Path(temp_path).unlink(missing_ok=True); raise
InplaceExcept ==
    /\ ip_pc = "except"
    /\ ip_fs' = [ip_fs EXCEPT !.temp = "absent", !.temp_gps = None]
    /\ ip_pc' = "raised"
    /\ UNCHANGED <<ip_lat, ip_lon, ip_fs_at_call, ip_write, ip_exc, ip_ret>>
    /\ UNCHANGED nonInplaceVars

NextInplace ==
    InplaceCall \/ InplaceMkstemp \/ InplaceWrite \/ InplaceMove
        \/ InplaceUnlink \/ InplaceExcept

SpecInplace == Init /\ [][NextInplace]_vars

----------------------------------------------------------------------------
(* process_pipeline as a state machine *)

\* a capture time two seconds into the track, between its two points
TimeOnTrack == FieldBytes(TRUE, DtStr(":", ":", 2024, 2, 29, 0, 0, 2))

\* the photos of a run: with GPS, without GPS at a time on the track and
\* at a time ten hours from it, and without a capture time
PipelineLoads ==
    {Some(ExifDict(Some(FullGps),
                   Some([t \in {DateTimeOriginal} |-> TimeOnTrack]), None)),
     Some(ExifDict(None, Some([t \in {DateTimeOriginal} |-> TimeOnTrack]),
                   None)),
     Some(ExifDict(None, Some([t \in {DateTimeOriginal} |-> ValidTime]),
                   None)),
     Some(ExifDict(None, None, None))}

\* in the folder and in its subdirectory, two names each
PipelineEntries ==
    { Entry(dir, name, ".jpg", TRUE, "file", load) :
        dir \in {Folder, SubFolder}, name \in {"a", "b"},
        load \in PipelineLoads }

PipelineFolders ==
    { es \in SeqsUpTo(PipelineEntries, MaxPipelineFiles) :
        \A j, k \in 1..Len(es) :
            j # k => EntryPath(es[j]) # EntryPath(es[k]) }

\* what parse_gpx and parse_csv return: a track sorted by time
PipelineTracks ==
    { <<TrackPoint(0, Deg(-1), Deg(-2)), TrackPoint(4, Deg(90), Deg(180))>> }

\* a photo file as it was when the run began
Untouched == [data |-> "original", gps |-> None]

\* the call; output_dir is a directory outside the photo folder
PipelineCall ==
    /\ p_pc = "idle"
    /\ p_folder' \in {"dir", "missing"}
    /\ p_entries' \in IF p_folder' = "dir" THEN PipelineFolders ELSE {<<>>}
    /\ p_recursive' \in BOOLEAN
    /\ p_output_mode' \in {"copy", "overwrite"}
    /\ p_track_type' \in {"gpx", "csv", "kml"}
    /\ p_files' = [path \in {EntryPath(p_entries'[k]) :
                                k \in 1..Len(p_entries')} |-> Untouched]
    /\ p_pc' = "scan"
    /\ UNCHANGED <<p_lists, p_track, p_match_results, p_pos, write_success,
                   write_failed, p_output, p_calls, p_exc, p_summary>>
    /\ UNCHANGED nonPipelineVars

\* already_gps, need_process, no_time = scan_photos(folder_path, recursive)
PipelineScan ==
    /\ p_pc = "scan"
    /\ LET r == ScanPhotos(p_folder, p_entries, p_recursive)
       IN /\ p_exc' = r.exc
          /\ p_lists' = r.lists
          /\ p_pc' = IF r.exc # EXC_NONE THEN "raised" ELSE "parse"
    /\ UNCHANGED <<p_folder, p_entries, p_recursive, p_output_mode,
                   p_track_type, p_track, p_match_results, p_pos,
                   write_success, write_failed, p_files, p_output, p_calls,
                   p_summary>>
    /\ UNCHANGED nonPipelineVars

\* parse_gpx or parse_csv, which return a track or raise; any other
\* track_type raises ValueError
PipelineParseTrack ==
    /\ p_pc = "parse"
    /\ IF p_track_type \notin {"gpx", "csv"}
       THEN /\ p_exc' = EXC_TRACK_TYPE
            /\ p_track' = p_track
            /\ p_pc' = "raised"
       ELSE \/ /\ p_track' \in PipelineTracks
               /\ p_exc' = EXC_NONE
               /\ p_pc' = "match"
            \/ /\ p_track' = p_track
               /\ p_exc' = EXC_TRACK_PARSE
               /\ p_pc' = "raised"
    /\ UNCHANGED <<p_folder, p_entries, p_recursive, p_output_mode,
                   p_track_type, p_lists, p_match_results, p_pos,
                   write_success, write_failed, p_files, p_output, p_calls,
                   p_summary>>
    /\ UNCHANGED nonPipelineVars

\* match_results = match_photos_to_track(need_process, track_points, ...)
PipelineMatch ==
    /\ p_pc = "match"
    /\ LET m == MatchPhotosToTrack(
                   PipelineArgs(AsInstants(MatchInput(p_lists)), p_track))
       IN /\ p_exc' = m.exc
          /\ p_match_results' = IF m.exc # EXC_NONE THEN p_match_results
                                ELSE m.results
          /\ p_pc' = IF m.exc # EXC_NONE THEN "raised" ELSE "output"
    /\ UNCHANGED <<p_folder, p_entries, p_recursive, p_output_mode,
                   p_track_type, p_lists, p_track, p_pos, write_success,
                   write_failed, p_files, p_output, p_calls, p_summary>>
    /\ UNCHANGED nonPipelineVars

\* the output path: output_dir, created when missing, or the photo folder
PipelineOutputPath ==
    /\ p_pc = "output"
    /\ \E created \in BOOLEAN :
          /\ p_output_mode # "copy" => created
          /\ p_exc' = IF created THEN EXC_NONE ELSE EXC_OUTPUT_DIR
          /\ p_pc' = IF created THEN "write" ELSE "raised"
    /\ write_success' = 0
    /\ write_failed' = 0
    /\ p_pos' = 0
    /\ UNCHANGED <<p_folder, p_entries, p_recursive, p_output_mode,
                   p_track_type, p_lists, p_track, p_match_results, p_files,
                   p_output, p_calls, p_summary>>
    /\ UNCHANGED nonPipelineVars

\* a call of a writer as the run records it
WriterCall(fn, src, dst, o) ==
    [fn |-> fn, src |-> src, dst |-> dst, exc |-> o.exc, ret |-> o.ret,
     counted |-> CountedAs(o)]

\* one iteration of: for i, match_item in enumerate(match_results)
PipelineWriteNext ==
    /\ p_pc = "write"
    /\ p_pos < Len(p_match_results)
    /\ LET match_item == p_match_results[p_pos + 1]
           src_path == match_item.photo_path
       IN IF ~ShouldWrite(match_item)
          THEN UNCHANGED <<write_success, write_failed, p_files, p_output,
                           p_calls>>
          ELSE IF p_output_mode = "copy"
          THEN LET dst_path == PathName(p_entries, src_path)
               IN \E o \in WriteOutcomes("file", TRUE,
                                          ToGps(match_item.lat[1]),
                                          ToGps(match_item.lon[1])) :
                     /\ p_output' =
                          IF o.dst = "same" THEN p_output
                          ELSE IF o.dst = "absent"
                          THEN [n \in DOMAIN p_output \ {dst_path} |->
                                   p_output[n]]
                          ELSE [n \in DOMAIN p_output \cup {dst_path} |->
                                   IF n = dst_path
                                   THEN [from |-> src_path, data |-> o.dst,
                                         gps |-> o.dst_gps]
                                   ELSE p_output[n]]
                     /\ p_files' = p_files
                     /\ p_calls' = Append(p_calls,
                                          WriterCall("write_gps_to_copy",
                                                     src_path, dst_path, o))
                     /\ write_success' =
                          IF CountedAs(o) = "write_success"
                          THEN write_success + 1 ELSE write_success
                     /\ write_failed' =
                          IF CountedAs(o) = "write_failed"
                          THEN write_failed + 1 ELSE write_failed
          ELSE \E o \in InplaceOutcomes("file", TRUE,
                                         ToGps(match_item.lat[1]),
                                         ToGps(match_item.lon[1])) :
                  /\ p_files' =
                       IF o.data = "original" THEN p_files
                       ELSE [p_files EXCEPT
                               ![src_path] = [data |-> o.data,
                                              gps |-> o.gps]]
                  /\ p_output' = p_output
                  /\ p_calls' = Append(p_calls,
                                       WriterCall("write_gps_inplace",
                                                  src_path, src_path, o))
                  /\ write_success' =
                       IF CountedAs(o) = "write_success"
                       THEN write_success + 1 ELSE write_success
                  /\ write_failed' =
                       IF CountedAs(o) = "write_failed"
                       THEN write_failed + 1 ELSE write_failed
    /\ p_pos' = p_pos + 1
    /\ UNCHANGED <<p_pc, p_folder, p_entries, p_recursive, p_output_mode,
                   p_track_type, p_lists, p_track, p_match_results, p_exc,
                   p_summary>>
    /\ UNCHANGED nonPipelineVars

\* after the loop: the report, written beside the output, and the summary
PipelineReturn ==
    /\ p_pc = "write"
    /\ p_pos >= Len(p_match_results)
    /\ p_summary' =
          Some([total |-> Len(p_lists.already_gps)
                            + Len(p_lists.need_process)
                            + Len(p_lists.no_time),
                already_gps |-> Len(p_lists.already_gps),
                need_process |-> Len(p_lists.need_process),
                no_time |-> Len(p_lists.no_time),
                matched |-> CountStatus(p_match_results,
                                        {MATCH_STATUS_MATCHED}),
                unmatched |-> CountStatus(p_match_results,
                                          {MATCH_STATUS_UNMATCHED,
                                           MATCH_STATUS_TOO_FAR}),
                write_success |-> write_success,
                write_failed |-> write_failed])
    /\ p_pc' = "done"
    /\ UNCHANGED <<p_folder, p_entries, p_recursive, p_output_mode,
                   p_track_type, p_lists, p_track, p_match_results, p_pos,
                   write_success, write_failed, p_files, p_output, p_calls,
                   p_exc>>
    /\ UNCHANGED nonPipelineVars

NextPipeline ==
    PipelineCall \/ PipelineScan \/ PipelineParseTrack \/ PipelineMatch
        \/ PipelineOutputPath \/ PipelineWriteNext \/ PipelineReturn

SpecPipeline == Init /\ [][NextPipeline]_vars

----------------------------------------------------------------------------
(* ui/pages.py: the match preview and the processing run of the match    *)
(* page.  app_need_process is app_state.need_process, the list the scan  *)
(* of the photo folder returned, and app_track is what parsing the track *)
(* file returns; the processing run scans the same folder and parses the *)
(* same file again (core/pipeline.py), so it works on the same two.      *)

\* the photos a scan puts on need_process: files of distinct paths
UiNeedProcess(tz, cam) ==
    { ps \in SeqsUpTo({ p \in PhotoPool(tz, cam) :
                          p.status = "need_process" }, MaxPhotos) :
        \A j, k \in 1..Len(ps) : j # k => ps[j].path # ps[k].path }

\* what parse_gpx and parse_csv return: a non-empty track sorted by time
UiTracks ==
    { t \in SeqsUpTo(TrackPointPool, MaxTrack) :
        /\ Len(t) > 0
        /\ \A k \in 1..(Len(t) - 1) : t[k].t_utc <= t[k + 1].t_utc }

\* the two methods the selection box offers
UiMethods == {"nearest", "interp"}

\* the application state as far as the match depends on it
AppState ==
    [need_process |-> app_need_process, track |-> app_track,
     photo_tz_offset |-> app_photo_tz_offset,
     camera_offset_sec |-> app_camera_offset_sec,
     max_error_sec |-> app_max_error_sec,
     match_method |-> app_match_method,
     max_distance_m |-> app_max_distance_m]

\* the arguments do_match calls match_photos_to_track with
PreviewArgs ==
    MatchArgs(app_need_process, app_track, app_photo_tz_offset,
              app_camera_offset_sec, app_max_error_sec, app_match_method,
              None, FALSE)

\* the arguments the pipeline started by do_process calls
\* match_photos_to_track with
ProcessArgs ==
    MatchArgs(app_need_process, app_track, app_photo_tz_offset,
              app_camera_offset_sec, app_max_error_sec, app_match_method,
              app_max_distance_m, FALSE)

\* the photos are scanned, the track file is chosen and the time settings
\* are entered
UiLoad ==
    /\ ui_pc = "start"
    /\ \E off \in Offsets :
         /\ app_photo_tz_offset' = off[1]
         /\ app_camera_offset_sec' = off[2]
         /\ app_need_process' \in UiNeedProcess(off[1], off[2])
    /\ app_track' \in UiTracks
    /\ app_max_error_sec' \in MaxErrors
    /\ ui_pc' = "ready"
    /\ UNCHANGED <<app_match_method, app_max_distance_m, app_match_results,
                   ui_previewed, ui_processed>>
    /\ UNCHANGED nonUiVars

\* the method selection box, bound to app_state.match_method
UiSelectMethod ==
    /\ ui_pc = "ready"
    /\ app_match_method' \in UiMethods \ {app_match_method}
    /\ UNCHANGED <<ui_pc, app_need_process, app_track, app_photo_tz_offset,
                   app_camera_offset_sec, app_max_error_sec,
                   app_max_distance_m, app_match_results, ui_previewed,
                   ui_processed>>
    /\ UNCHANGED nonUiVars

\* update_distance_filter: the distance entered when the switch is on,
\* None when it is off
UpdateDistanceFilter ==
    /\ ui_pc = "ready"
    /\ app_max_distance_m' \in MaxDistances \ {app_max_distance_m}
    /\ UNCHANGED <<ui_pc, app_need_process, app_track, app_photo_tz_offset,
                   app_camera_offset_sec, app_max_error_sec,
                   app_match_method, app_match_results, ui_previewed,
                   ui_processed>>
    /\ UNCHANGED nonUiVars

\* do_match: nothing without photos to process; an exception of the match
\* is notified and leaves the results shown before
DoMatch ==
    /\ ui_pc = "ready"
    /\ app_need_process # <<>>
    /\ LET m == MatchPhotosToTrack(PreviewArgs)
       IN IF m.exc # EXC_NONE
          THEN UNCHANGED <<app_match_results, ui_previewed>>
          ELSE /\ app_match_results' = m.results
               /\ ui_previewed' = Some(AppState)
    /\ UNCHANGED <<ui_pc, app_need_process, app_track, app_photo_tz_offset,
                   app_camera_offset_sec, app_max_error_sec,
                   app_match_method, app_max_distance_m, ui_processed>>
    /\ UNCHANGED nonUiVars

\* do_process: process_pipeline on the application state; the match
\* results it computes and writes
DoProcess ==
    /\ ui_pc = "ready"
    /\ LET m == MatchPhotosToTrack(ProcessArgs)
       IN ui_processed' = IF m.exc # EXC_NONE THEN ui_processed
                          ELSE Some([state |-> AppState,
                                     match_results |-> m.results])
    /\ UNCHANGED <<ui_pc, app_need_process, app_track, app_photo_tz_offset,
                   app_camera_offset_sec, app_max_error_sec,
                   app_match_method, app_max_distance_m, app_match_results,
                   ui_previewed>>
    /\ UNCHANGED nonUiVars

NextUi ==
    \/ UiLoad
    \/ UiSelectMethod
    \/ UpdateDistanceFilter
    \/ DoMatch
    \/ DoProcess

SpecUi == Init /\ [][NextUi]_vars

----------------------------------------------------------------------------
(* The loop as a function *)

\* the loop from photo k on, started with the items acc: the items
\* appended in the end and the exception that ended it, if any
RECURSIVE LoopFrom(_, _, _)
LoopFrom(k, acc, cb) ==
    IF k > Len(photos) THEN [results |-> acc, exc |-> EXC_NONE]
    ELSE LET r == ProcessPhoto(photos[k], track_points, photo_tz_offset,
                               camera_offset_sec, max_error_sec, method,
                               max_distance_m, cb)
         IN IF r.exc # EXC_NONE
            THEN [results |-> acc \o r.items, exc |-> r.exc]
            ELSE LoopFrom(k + 1, acc \o r.items, cb)

\* the whole call on the current arguments, with or without a callback
Outcome(cb) ==
    IF EntryError(track_points, method) # EXC_NONE
    THEN [results |-> <<>>, exc |-> EntryError(track_points, method)]
    ELSE LoopFrom(1, <<>>, cb)


----------------------------------------------------------------------------
(* Vocabulary of the properties *)

Entered == pc # "idle"
Returned == pc = "done"
EntryRaised == exc \in {EXC_EMPTY_TRACK, EXC_INVALID_METHOD}

\* photo i is to be matched
NeedsMatch(i) ==
    photos[i].status = "need_process" /\ photos[i].datetime_utc # None

\* the normalised instant of photo i
QueryOf(i) ==
    ConvertPhotoTimeToUtc(photos[i].datetime_utc[1], photo_tz_offset,
                          camera_offset_sec)

\* the loop has appended an item for photo i (items are appended one per
\* photo, so item i belongs to photo i)
HasResult(i) == i \in 1..Len(match_results)

Ascending(track) ==
    \A j, k \in 1..Len(track) : j < k => track[j].t_utc <= track[k].t_utc

\* on an ascending track: q has a track time before it and one not before
Bracketed(q, track) ==
    /\ \E k \in 1..Len(track) : track[k].t_utc < q
    /\ \E k \in 1..Len(track) : track[k].t_utc >= q

\* the last point earlier than q and the first point not earlier than q
BeforeOf(q, track) ==
    track[CHOOSE k \in 1..Len(track) :
            /\ track[k].t_utc < q
            /\ \A j \in 1..Len(track) : track[j].t_utc < q => j <= k]
AfterOf(q, track) ==
    track[CHOOSE k \in 1..Len(track) :
            /\ track[k].t_utc >= q
            /\ \A j \in 1..Len(track) : track[j].t_utc >= q => k <= j]

----------------------------------------------------------------------------
(* Properties *)

\* C1: when match_photos_to_track returns, the result holds exactly one
\* MatchItem per input photo, in input order: same length as photos and
\* result[i].photo_path = photos[i].path for every i.
C1_OnePerPhotoInOrder ==
    Returned =>
        /\ Len(match_results) = Len(photos)
        /\ \A i \in 1..Len(photos) :
              match_results[i].photo_path = photos[i].path

C1_Witness ==
    /\ Returned
    /\ Len(photos) = 2
    /\ photos[1].path # photos[2].path
    /\ ~NeedsMatch(1)
    /\ NeedsMatch(2)
    /\ match_results[2].status = "matched"

\* C2: for every photo that needs matching, the item produced has status
\* too_far if and only if its error_sec is strictly greater than
\* max_error_sec, and matched otherwise.
C2_TooFarIffOverThreshold ==
    \A i \in 1..Len(match_results) :
        NeedsMatch(i) =>
            /\ match_results[i].error_sec # None
            /\ (match_results[i].status = "too_far"
                  <=> match_results[i].error_sec[1] > max_error_sec)
            /\ (match_results[i].status # "too_far"
                  => match_results[i].status = "matched")

\* an interpolated item exactly on the threshold is matched, next to a
\* rejected one
C2_Witness ==
    /\ Returned
    /\ max_error_sec > 0
    /\ \E i, j \in 1..Len(match_results) :
          /\ NeedsMatch(i) /\ NeedsMatch(j)
          /\ match_results[i].status = "matched"
          /\ match_results[i].method = Some("interp")
          /\ match_results[i].error_sec = Some(max_error_sec)
          /\ match_results[j].status = "too_far"

\* C3: in interpolation mode with no distance limit, a photo whose
\* normalised time q lies inside the (ascending) track's span, with error
\* within the threshold, gets method interp and lat = before.lat +
\* (after.lat - before.lat) * ratio, lon likewise, with 0 <= ratio <= 1;
\* and when q equals the timestamp of a track point the coordinates are
\* exactly that point's coordinates.
C3_InterpBlendExactAtPoints ==
    (/\ Entered /\ ~EntryRaised
     /\ method = "interp"
     /\ max_distance_m = None
     /\ ~ConvertRaises(photo_tz_offset)
     /\ Ascending(track_points)) =>
    \A i \in 1..Len(match_results) :
        (/\ NeedsMatch(i)
         /\ Bracketed(QueryOf(i), track_points)) =>
        LET q == QueryOf(i)
            before == BeforeOf(q, track_points)
            after == AfterOf(q, track_points)
            ratio == Ratio(q, before.t_utc, after.t_utc - before.t_utc)
            gap == IF q - before.t_utc < after.t_utc - q
                   THEN q - before.t_utc ELSE after.t_utc - q
        IN gap <= max_error_sec =>
             /\ match_results[i].method = Some("interp")
             /\ 0 <= ratio /\ ratio <= Unit
             /\ match_results[i].lat =
                   Some(Blend(before.lat, after.lat, ratio))
             /\ match_results[i].lon =
                   Some(Blend(before.lon, after.lon, ratio))
             /\ (q = after.t_utc =>
                   /\ match_results[i].lat = Some(after.lat)
                   /\ match_results[i].lon = Some(after.lon))

\* the neighbour chosen by nearest mode for the item of photo i, and the
\* two gaps
C4_Case(i) ==
    /\ HasResult(i)
    /\ NeedsMatch(i)
    /\ Bracketed(QueryOf(i), track_points)
    /\ match_results[i].status = "matched"

C4_Chosen(i, tie_before) ==
    LET q == QueryOf(i)
        before == BeforeOf(q, track_points)
        after == AfterOf(q, track_points)
        error_before == q - before.t_utc
        error_after == after.t_utc - q
    IN IF error_before < error_after THEN before
       ELSE IF error_after < error_before THEN after
       ELSE IF tie_before THEN before ELSE after

\* C4 as stated: in nearest mode, with both bracketing neighbours, the
\* matched coordinates are exactly those of the neighbour with the smaller
\* absolute time gap, and on equal gaps those of the earlier point.
C4_NearestTieEarlier ==
    (method = "nearest" /\ Ascending(track_points)) =>
    \A i \in 1..Len(match_results) :
        C4_Case(i) =>
            /\ match_results[i].lat = Some(C4_Chosen(i, TRUE).lat)
            /\ match_results[i].lon = Some(C4_Chosen(i, TRUE).lon)

\* C4 amended: in nearest mode, with both bracketing neighbours, the
\* matched coordinates are exactly those of the neighbour with the smaller
\* absolute time gap, and on equal gaps those of the later point (after).
C4_NearestTieLater ==
    (method = "nearest" /\ Ascending(track_points)) =>
    \A i \in 1..Len(match_results) :
        C4_Case(i) =>
            /\ match_results[i].method = Some("nearest")
            /\ match_results[i].lat = Some(C4_Chosen(i, FALSE).lat)
            /\ match_results[i].lon = Some(C4_Chosen(i, FALSE).lon)

\* equal gaps between two points of different coordinates, and next to it
\* a photo strictly nearer to the earlier point
C4_Witness ==
    /\ Returned
    /\ method = "nearest"
    /\ Ascending(track_points)
    /\ \E i, j \in 1..Len(match_results) :
          /\ C4_Case(i) /\ C4_Case(j)
          /\ LET q == QueryOf(i)
                 before == BeforeOf(q, track_points)
                 after == AfterOf(q, track_points)
             IN /\ q - before.t_utc = after.t_utc - q
                /\ before.lat # after.lat
                /\ match_results[i].lat = Some(after.lat)
          /\ LET q == QueryOf(j)
                 before == BeforeOf(q, track_points)
                 after == AfterOf(q, track_points)
             IN /\ q - before.t_utc < after.t_utc - q
                /\ before.lat # after.lat
                /\ match_results[j].lat = Some(before.lat)

\* the code's bracket of photo i: track index of point_before, or 0 if
\* the photo is not between two track points
BracketIndex(i) ==
    LET idx == BisectLeft(TrackTimes(track_points), QueryOf(i), 0,
                          Len(track_points))
    IN IF idx = 0 \/ idx >= Len(track_points) THEN 0 ELSE idx

\* photo i is between two track points further apart than max_distance_m
C5_Case(i) ==
    /\ HasResult(i)
    /\ NeedsMatch(i)
    /\ method = "interp"
    /\ max_distance_m # None
    /\ BracketIndex(i) # 0
    /\ LET b == track_points[BracketIndex(i)]
           a == track_points[BracketIndex(i) + 1]
       IN DistanceM(b.lat, b.lon, a.lat, a.lon) > max_distance_m[1]

\* what nearest mode produces for photo i on the same track and threshold
C5_NearestItem(i) ==
    ProcessPhoto(photos[i], track_points, photo_tz_offset, camera_offset_sec,
                 max_error_sec, "nearest", max_distance_m, FALSE).items[1]

\* C5: in interpolation mode with max_distance_m set, when the two
\* bracketing points are further apart than max_distance_m, the item has
\* the same lat, lon, error_sec, status and method as nearest mode gives
\* for the same photo, track and threshold, and a matched item carries a
\* non-empty degradation reason.
C5_DegradedEqualsNearest ==
    \A i \in 1..Len(match_results) :
        C5_Case(i) =>
            /\ match_results[i].lat = C5_NearestItem(i).lat
            /\ match_results[i].lon = C5_NearestItem(i).lon
            /\ match_results[i].error_sec = C5_NearestItem(i).error_sec
            /\ match_results[i].status = C5_NearestItem(i).status
            /\ match_results[i].method = C5_NearestItem(i).method
            /\ (match_results[i].status = "matched" =>
                  /\ match_results[i].reason # None
                  /\ match_results[i].reason[1] # "")

\* a degraded, matched item at equal gaps between points of different
\* coordinates, next to a degraded item strictly nearer to the earlier point
C5_Witness ==
    /\ Returned
    /\ \E i, j \in 1..Len(match_results) :
          /\ C5_Case(i) /\ C5_Case(j)
          /\ match_results[i].status = "matched"
          /\ match_results[j].status = "matched"
          /\ LET b == track_points[BracketIndex(i)]
                 a == track_points[BracketIndex(i) + 1]
             IN /\ QueryOf(i) - b.t_utc = a.t_utc - QueryOf(i)
                /\ b.lat # a.lat
                /\ match_results[i].lat = Some(a.lat)
          /\ LET b == track_points[BracketIndex(j)]
                 a == track_points[BracketIndex(j) + 1]
             IN /\ QueryOf(j) - b.t_utc < a.t_utc - QueryOf(j)
                /\ match_results[j].lat = Some(b.lat)

\* the configuration is the documented one
ValidConfiguration ==
    /\ method \in {"nearest", "interp"}
    /\ photo_tz_offset >= -12 /\ photo_tz_offset <= 14
    /\ max_error_sec > 0

\* C6: for a valid method and a non-empty track, the call never raises
\* because of an individual photo, whatever method, max_distance_m and
\* on_progress are: it completes and returns the full result list.
C6_NeverRaisesOnPhoto ==
    (Entered /\ ValidConfiguration /\ Len(track_points) > 0) =>
        /\ pc # "raised"
        /\ (Returned => Len(match_results) = Len(photos))

\* C7: called with an on_progress callback, the call returns the same
\* result list as without one.
C7_ProgressHasNoEffect ==
    (on_progress /\ pc \in {"done", "raised"}) =>
        /\ exc = Outcome(FALSE).exc
        /\ (Returned => match_results = Outcome(FALSE).results)

\* C8: matching against an empty track raises the empty-track error before
\* any photo is processed: no item is produced and no progress callback is
\* invoked, whatever the photos and the other parameters are.
C8_EmptyTrackRaisesFirst ==
    (Entered /\ Len(track_points) = 0) =>
        /\ pc = "raised"
        /\ exc = EXC_EMPTY_TRACK
        /\ match_results = <<>>
        /\ progress = <<>>
        /\ pos = 0

C8_Witness ==
    /\ pc = "raised"
    /\ exc = EXC_EMPTY_TRACK
    /\ Len(track_points) = 0
    /\ method \notin {"nearest", "interp"}
    /\ on_progress
    /\ Len(photos) = 2
    /\ NeedsMatch(1)

\* C9: a method other than 'nearest' and 'interp' makes the call fail with
\* an error before any photo is processed and before any progress
\* callback, even when no photo needs matching.
C9_InvalidMethodRaisesFirst ==
    (Entered /\ method \notin {"nearest", "interp"}) =>
        /\ pc = "raised"
        /\ exc \in {EXC_INVALID_METHOD, EXC_EMPTY_TRACK}
        /\ (Len(track_points) > 0 => exc = EXC_INVALID_METHOD)
        /\ match_results = <<>>
        /\ progress = <<>>
        /\ pos = 0

C9_Witness ==
    /\ pc = "raised"
    /\ exc = EXC_INVALID_METHOD
    /\ Len(track_points) > 0
    /\ on_progress
    /\ Len(photos) = 2
    /\ \A i \in 1..Len(photos) : ~NeedsMatch(i)

\* C10: a tz_offset outside [-12, 14] or a max_error_sec that is not
\* greater than 0 is rejected with an error before any photo is processed.
C10_OffsetsValidatedAtEntry ==
    (/\ Entered
     /\ \/ photo_tz_offset < -12
        \/ photo_tz_offset > 14
        \/ max_error_sec <= 0) =>
        /\ pc = "raised"
        /\ match_results = <<>>
        /\ progress = <<>>

\* C11: a photo whose status is not need_process (already_gps or no_time)
\* yields an item that carries the photo's own status and has lat, lon,
\* error_sec, method and reason all absent, whatever the track and the
\* matching parameters are.
C11_PassThroughUnchanged ==
    \A i \in 1..Len(match_results) :
        photos[i].status # "need_process" =>
            /\ match_results[i].photo_path = photos[i].path
            /\ match_results[i].status = photos[i].status
            /\ match_results[i].lat = None
            /\ match_results[i].lon = None
            /\ match_results[i].error_sec = None
            /\ match_results[i].method = None
            /\ match_results[i].reason = None

\* both kinds of photo passed through, on a track and parameters that
\* would match a photo taken at the same instant
C11_Witness ==
    /\ Returned
    /\ Len(photos) = 2
    /\ photos[1].status = "already_gps"
    /\ photos[1].datetime_utc # None
    /\ photos[2].status = "no_time"
    /\ match_results[1].status = "already_gps"
    /\ match_results[2].status = "no_time"
    /\ Len(track_points) = 2
    /\ max_error_sec > 0
    /\ max_distance_m # None
    /\ on_progress

\* photo i lies outside the span of the time-ascending track: earlier
\* than its first point or later than its last point
C12_Outside(i) ==
    /\ NeedsMatch(i)
    /\ \/ QueryOf(i) < track_points[1].t_utc
       \/ QueryOf(i) > track_points[Len(track_points)].t_utc

\* the endpoint of the track on the photo's side
C12_Endpoint(i) ==
    IF QueryOf(i) < track_points[1].t_utc THEN track_points[1]
    ELSE track_points[Len(track_points)]

\* C12: when a photo's normalised time lies outside the track span (before
\* the first or after the last track point), the item is decided against
\* that single endpoint in nearest and in interpolation mode alike: too_far
\* with no coordinates if the absolute gap to the endpoint exceeds
\* max_error_sec, otherwise matched with the endpoint's exact coordinates
\* and method nearest.
C12_OutsideSpanUsesEndpoint ==
    Ascending(track_points) =>
    \A i \in 1..Len(match_results) :
        C12_Outside(i) =>
            LET endpoint == C12_Endpoint(i)
                gap == Abs(QueryOf(i) - endpoint.t_utc)
            IN IF gap > max_error_sec
               THEN /\ match_results[i].status = "too_far"
                    /\ match_results[i].lat = None
                    /\ match_results[i].lon = None
               ELSE /\ match_results[i].status = "matched"
                    /\ match_results[i].lat = Some(endpoint.lat)
                    /\ match_results[i].lon = Some(endpoint.lon)
                    /\ match_results[i].method = Some("nearest")

\* interpolation mode: a photo before the first point matched to it with
\* method nearest, and a photo after the last point rejected
C12_Witness ==
    /\ Returned
    /\ method = "interp"
    /\ Ascending(track_points)
    /\ \E i, j \in 1..Len(match_results) :
          /\ C12_Outside(i) /\ C12_Outside(j)
          /\ QueryOf(i) < track_points[1].t_utc
          /\ match_results[i].status = "matched"
          /\ match_results[i].method = Some("nearest")
          /\ match_results[i].lat = Some(track_points[1].lat)
          /\ QueryOf(j) > track_points[Len(track_points)].t_utc
          /\ match_results[j].status = "too_far"
          /\ match_results[j].lat = None

\* C13: every MatchItem in the result satisfies the result invariant: a
\* matched item has lat, lon and method present, lat in [-90, 90] and lon
\* in [-180, 180]; a lat or lon present on any other item is in range; a
\* too_far item carries no coordinates and no method.
C13_ResultInvariant ==
    \A i \in 1..Len(match_results) :
        LET m == match_results[i]
        IN /\ (m.status = "matched" =>
                 /\ m.lat # None /\ m.lon # None /\ m.method # None
                 /\ LatInRange(m.lat[1])
                 /\ LonInRange(m.lon[1]))
           /\ (m.status # "matched" =>
                 /\ (m.lat # None => LatInRange(m.lat[1]))
                 /\ (m.lon # None => LonInRange(m.lon[1])))
           /\ (m.status = "too_far" =>
                 m.lat = None /\ m.lon = None /\ m.method = None)

\* a returned list with an interpolated item strictly between two points,
\* one of them at the limit of both ranges, and a rejected item
C13_Witness ==
    /\ Returned
    /\ \E i, j \in 1..Len(match_results) :
          /\ NeedsMatch(i) /\ NeedsMatch(j)
          /\ match_results[i].status = "matched"
          /\ match_results[i].method = Some("interp")
          /\ BracketIndex(i) # 0
          /\ track_points[BracketIndex(i) + 1].lat = Deg(LatLimit)
          /\ match_results[i].lat # Some(track_points[BracketIndex(i)].lat)
          /\ match_results[i].lat # Some(track_points[BracketIndex(i) + 1].lat)
          /\ match_results[j].status = "too_far"

\* C14: time normalisation is the affine map utc = local_time -
\* tz_offset hours + camera_offset_sec seconds: the conversion and the
\* camera correction are purely additive, a zero camera offset changes
\* nothing, and the returned datetime carries no zone tag.  The instant
\* is the one the matching loop looks up in the track.
C14_NormalizationAffine ==
    conv_pc = "done" =>
        /\ conv_dt.t = conv_photo_dt - SecondsPerHour * conv_tz_offset
                         + conv_camera_offset_sec
        /\ (conv_camera_offset_sec = 0 =>
              conv_dt.t = conv_photo_dt - SecondsPerHour * conv_tz_offset)
        /\ conv_dt.tzinfo = None
        /\ conv_dt.t = ConvertPhotoTimeToUtc(conv_photo_dt, conv_tz_offset,
                                             conv_camera_offset_sec)

\* a conversion from a zone west of UTC with a camera correction
C14_Witness ==
    /\ conv_pc = "done"
    /\ conv_tz_offset < 0
    /\ conv_camera_offset_sec > 0
    /\ conv_photo_dt > 0
    /\ conv_dt.t > conv_photo_dt + conv_camera_offset_sec

\* the coordinate x and the value decoded from a reference and a
\* degrees/minutes/seconds triple differ by at most 1/1000 second of arc.
\* With sign = -1 for S and W, x - sign * (d + m/60 + k/3600000) is
\* (arc * 60000 - sign * k * GpsUnit) / (3600000 * GpsUnit), where
\* arc = (x - sign * d * GpsUnit) * 60 - sign * m * GpsUnit; for
\* 0 <= k <= 60000 a difference within the tolerance has |arc| <= GpsUnit.
C15_Within(x, ref, dms) ==
    LET sign == IF ref \in {"S", "W"} THEN -1 ELSE 1
        d == dms[1][1]
        m == dms[2][1]
        k == dms[3][1]
        arc == (x - sign * d * GpsUnit) * SexagesimalBase - sign * m * GpsUnit
    IN /\ dms[1][2] = 1 /\ dms[2][2] = 1 /\ dms[3][2] = SecondsDenominator
       /\ Abs(arc) <= GpsUnit
       /\ Abs(arc * SexagesimalBase * SecondsDenominator
                - sign * k * GpsUnit) <= GpsUnit

\* C15: GPS encoding round-trips: for every lat in [-90, 90] and lon in
\* [-180, 180], decoding the written hemisphere reference, degrees,
\* minutes and seconds/1000 back to a signed decimal value reproduces the
\* original value to within 1/1000 of a second of arc.
C15_RoundTripWithinTolerance ==
    gps_ifd # None =>
        /\ C15_Within(w_lat, gps_ifd[1].GPSLatitudeRef,
                      gps_ifd[1].GPSLatitude)
        /\ C15_Within(w_lon, gps_ifd[1].GPSLongitudeRef,
                      gps_ifd[1].GPSLongitude)

\* C16: write_gps_to_copy called with lat outside [-90, 90] or lon outside
\* [-180, 180] raises the out-of-range error before the source file is
\* read and before the destination directory or file is created: no file
\* operation is made and the file system is as it was at the call.
C16_RangeCheckedFirst ==
    (/\ w_pc \notin {"idle", "validate"}
     /\ \/ w_lat < -GpsDeg(LatLimit) \/ w_lat > GpsDeg(LatLimit)
        \/ w_lon < -GpsDeg(LonLimit) \/ w_lon > GpsDeg(LonLimit)) =>
        /\ w_pc = "raised"
        /\ w_exc = EXC_OUT_OF_RANGE
        /\ io_log = <<>>
        /\ fs = fs_at_call
        /\ w_ret = None

\* a longitude just below -180 with a valid latitude, on a file system
\* where the later steps would have created the destination directory
C16_Witness ==
    /\ w_pc = "raised"
    /\ w_exc = EXC_OUT_OF_RANGE
    /\ w_lat = GpsDeg(LatLimit)
    /\ w_lon < -GpsDeg(LonLimit)
    /\ fs.src = "file"
    /\ ~fs.dst_parent
    /\ fs.dst = "absent"

\* the metadata of the file read has a GPS block holding all four of
\* latitude, longitude, latitude reference and longitude reference
C17_AllFourPresent ==
    /\ r_load # None
    /\ "GPS" \in DOMAIN r_load[1]
    /\ RequiredGpsTags \subseteq DOMAIN r_load[1]["GPS"]

\* C17: the GPS presence check is true only when latitude, longitude,
\* latitude reference and longitude reference are all four present in the
\* GPS block (and is true then); a block missing any one of the four, an
\* empty block or a missing block is reported as having no GPS.
C17_HasGpsNeedsAllFour ==
    r_pc = "done" => (r_ret[1][1] <=> C17_AllFourPresent)

\* three of the four tags present: reported as no GPS
C17_Witness ==
    /\ r_pc = "done"
    /\ r_load # None
    /\ "GPS" \in DOMAIN r_load[1]
    /\ DOMAIN r_load[1]["GPS"] =
          {GPSLatitude, GPSLongitude, GPSLatitudeRef}
    /\ r_ret[1][1] = FALSE

\* the time read from one field of the file's metadata: none when the
\* metadata cannot be loaded, the field is missing or it does not parse
C18_Field(ifd_name, tag) ==
    IF /\ r_load # None
       /\ ifd_name \in DOMAIN r_load[1]
       /\ tag \in DOMAIN r_load[1][ifd_name]
       /\ r_load[1][ifd_name][tag].decodes
    THEN ParseExifDatetime(r_load[1][ifd_name][tag].text)
    ELSE None

C19_NearestGap(q, track) ==
    CHOOSE g \in { Abs(q - track[k].t_utc) : k \in 1..Len(track) } :
        \A k \in 1..Len(track) : g <= Abs(q - track[k].t_utc)

C20_DistinctTimes(track) ==
    \A j, k \in 1..Len(track) : j # k => track[j].t_utc # track[k].t_utc

\* the time-ascending ordering of a track with distinct timestamps
C20_AscendingOrder(track) ==
    CHOOSE sorted \in [1..Len(track) -> { track[k] : k \in 1..Len(track) }] :
        /\ \A j, k \in 1..Len(track) :
              j < k => sorted[j].t_utc < sorted[k].t_utc
        /\ \A k \in 1..Len(track) : \E j \in 1..Len(track) :
              sorted[j] = track[k]

\* the loop over the photos from photo k on, run on a given track
RECURSIVE C20_LoopOn(_, _, _)
C20_LoopOn(track, k, acc) ==
    IF k > Len(photos) THEN [results |-> acc, exc |-> EXC_NONE]
    ELSE LET r == ProcessPhoto(photos[k], track, photo_tz_offset,
                               camera_offset_sec, max_error_sec, method,
                               max_distance_m, on_progress)
         IN IF r.exc # EXC_NONE
            THEN [results |-> acc \o r.items, exc |-> r.exc]
            ELSE C20_LoopOn(track, k + 1, acc \o r.items)

\* C20: the matching engine sorts the track defensively: for track points
\* with pairwise distinct timestamps, match_photos_to_track returns the
\* same results for every ordering of the input track_points list as it
\* does for the time-ascending ordering.
C20_TrackOrderIrrelevant ==
    (Returned /\ C20_DistinctTimes(track_points)) =>
        LET ascending == C20_LoopOn(C20_AscendingOrder(track_points), 1, <<>>)
        IN /\ ascending.exc = EXC_NONE
           /\ ascending.results = match_results

----------------------------------------------------------------------------

\* C21: on a time-ascending track (duplicate timestamps allowed) the
\* bracket of a photo time q is: no before and after = the first point
\* when q is not later than the first timestamp; before = the last point
\* and no after when q is later than every timestamp; otherwise before is
\* the last point with timestamp < q and after is the first point with
\* timestamp >= q, the two are adjacent in the track, t_before < q <=
\* t_after, and the span t_after - t_before is strictly positive, so the
\* zero-span branch of the interpolation is not taken.
C21_BracketStraddlesQuery ==
    (b_pc = "done" /\ Ascending(b_track)) =>
        LET n == Len(b_track)
            q == b_query
        IN IF q <= b_track[1].t_utc
           THEN b_before = None /\ b_after = Some(b_track[1])
           ELSE IF \A k \in 1..n : b_track[k].t_utc < q
           THEN b_before = Some(b_track[n]) /\ b_after = None
           ELSE \E k \in 1..(n - 1) :
                  /\ b_before = Some(b_track[k])
                  /\ b_after = Some(b_track[k + 1])
                  /\ \A j \in 1..n : b_track[j].t_utc < q <=> j <= k
                  /\ b_track[k].t_utc < q
                  /\ q <= b_track[k + 1].t_utc
                  /\ b_track[k + 1].t_utc - b_track[k].t_utc > 0

\* reached: a photo time equal to a duplicated timestamp inside an
\* ascending track of three points, bracketed by the point before the
\* duplicates and the first of them
C21_Witness ==
    /\ b_pc = "done"
    /\ Ascending(b_track)
    /\ Len(b_track) = 3
    /\ b_track[2].t_utc = b_track[3].t_utc
    /\ b_track[2] # b_track[3]
    /\ b_query = b_track[2].t_utc
    /\ b_before = Some(b_track[1])
    /\ b_after = Some(b_track[2])

----------------------------------------------------------------------------

\* a shard: some of the photos of the batch, named by their input index,
\* each at most once, in any order
C22_ShardsOf ==
    [n \in 0..MaxPhotos |->
        { sh \in SeqsUpTo(1..n, n) :
            \A j, k \in 1..Len(sh) : j # k => sh[j] # sh[k] }]

C22_Shards == C22_ShardsOf[Len(photos)]

\* what the loop body does for each photo of the batch, taken alone, with
\* the track and the parameters of the call
C22_Each ==
    [i \in 1..Len(photos) |->
        ProcessPhoto(photos[i], track_points, photo_tz_offset,
                     camera_offset_sec, max_error_sec, method,
                     max_distance_m, on_progress)]

\* match_photos_to_track called on the photos of shard sh against the
\* same track with the same parameters: the loop from the shard's k-th
\* photo on, each being the loop body for that photo
RECURSIVE C22_LoopOn(_, _, _, _)
C22_LoopOn(each, sh, k, acc) ==
    IF k > Len(sh) THEN [results |-> acc, exc |-> EXC_NONE]
    ELSE LET r == each[sh[k]]
         IN IF r.exc # EXC_NONE
            THEN [results |-> acc \o r.items, exc |-> r.exc]
            ELSE C22_LoopOn(each, sh, k + 1, acc \o r.items)

\* the call on a shard returns, and its k-th item is the item the
\* sequential call produced for the same photo
C22_ShardAgrees(each, sh) ==
    LET o == C22_LoopOn(each, sh, 1, <<>>)
    IN /\ o.exc = EXC_NONE
       /\ Len(o.results) = Len(sh)
       /\ \A k \in 1..Len(sh) : o.results[k] = match_results[sh[k]]

----------------------------------------------------------------------------

\* the float lat_s * 1000 that the writer scales the seconds of a
\* coordinate to, in units
C23_ScaledSeconds(x) ==
    LET lat_deg == Abs(x)
        minutes == GpsMulInt(GpsSubInt(lat_deg, GpsInt(lat_deg)),
                             SexagesimalBase)
        lat_s == GpsMulInt(GpsSubInt(minutes, GpsInt(minutes)),
                           SexagesimalBase)
    IN GpsMulInt(lat_s, SecondsDenominator)

\* the rational written for the seconds is the integer nearest to the
\* scaled seconds over the denominator 1000; degrees and minutes are the
\* truncated values over 1
C23_Rounded(x, dms) ==
    LET lat_deg == Abs(x)
        minutes == GpsMulInt(GpsSubInt(lat_deg, GpsInt(lat_deg)),
                             SexagesimalBase)
    IN /\ dms[1] = <<GpsInt(lat_deg), 1>>
       /\ dms[2] = <<GpsInt(minutes), 1>>
       /\ dms[3][2] = SecondsDenominator
       /\ 2 * Abs(C23_ScaledSeconds(x) - dms[3][1] * GpsUnit) <= GpsUnit

\* C23: seconds of arc are encoded by scaled rounding to the nearest
\* representable unit: the numerator stored over the denominator 1000 is
\* the integer nearest to seconds * 1000, not the truncated value, while
\* degrees and minutes are truncated.
C23_SecondsRoundedToNearest ==
    gps_ifd # None =>
        /\ C23_Rounded(w_lat, gps_ifd[1][GPSLatitude])
        /\ C23_Rounded(w_lon, gps_ifd[1][GPSLongitude])

----------------------------------------------------------------------------

\* the number of items for the path on a list
C24_Count(list, p) == Cardinality({k \in 1..Len(list) : list[k].path = p})

\* the file has been handled by the loop and was there when it was read
C24_Scanned(k) ==
    /\ k \in 1..sc_done
    /\ image_files[k].path_kind # "missing"

\* the file's metadata could be read: it is a file and piexif.load gave
\* a dictionary
C24_Readable(f) == f.path_kind = "file" /\ f.load # None

\* C24: scanning puts every photo it could read on exactly one of the
\* three lists, and every PhotoItem built satisfies the record
\* invariants: on already_gps has_gps is true, on need_process has_gps is
\* false and a capture time is present, on no_time there is no capture
\* time.  A photo with GPS is put on already_gps whether or not it has a
\* capture time, and a photo whose metadata cannot be read is put on
\* no_time.
C24_ScanClassifies ==
    /\ \A k \in 1..sc_done :
          LET f == image_files[k]
              p == EntryPath(f)
              on_gps == C24_Count(already_gps, p)
              on_need == C24_Count(need_process, p)
              on_none == C24_Count(no_time, p)
          IN /\ C24_Scanned(k) => on_gps + on_need + on_none = 1
             /\ (C24_Readable(f) /\ HasGps(f.load[1])) => on_gps = 1
             /\ (C24_Scanned(k) /\ ~C24_Readable(f)) => on_none = 1
    /\ \A k \in 1..Len(already_gps) :
          /\ PhotoItemValid(already_gps[k])
          /\ already_gps[k].status = PHOTO_STATUS_ALREADY_GPS
          /\ already_gps[k].has_gps
    /\ \A k \in 1..Len(need_process) :
          /\ PhotoItemValid(need_process[k])
          /\ need_process[k].status = PHOTO_STATUS_NEED_PROCESS
          /\ ~need_process[k].has_gps
          /\ need_process[k].datetime_utc # None
    /\ \A k \in 1..Len(no_time) :
          /\ PhotoItemValid(no_time[k])
          /\ no_time[k].status = PHOTO_STATUS_NO_TIME
          /\ no_time[k].datetime_utc = None

\* reached: a returned scan of two photos, one with GPS and no capture
\* time on already_gps, one that piexif could not load on no_time
C24_Witness ==
    /\ sc_pc = "done"
    /\ Len(image_files) = 2
    /\ \E j, k \in 1..2 :
          /\ C24_Readable(image_files[j])
          /\ HasGps(image_files[j].load[1])
          /\ C24_Count(already_gps, EntryPath(image_files[j])) = 1
          /\ already_gps[1].datetime_utc = None
          /\ image_files[k].path_kind = "file"
          /\ image_files[k].load = None
          /\ C24_Count(no_time, EntryPath(image_files[k])) = 1

----------------------------------------------------------------------------

\* the image file is as it was at the call
C26_OriginalUntouched ==
    /\ ip_fs.image = ip_fs_at_call.image
    /\ ip_fs.data = ip_fs_at_call.data
    /\ ip_fs.gps = ip_fs_at_call.gps

\* the write to the temporary file returned False or raised
C26_WriteFailed ==
    /\ ip_write # None
    /\ ip_write[1].exc # EXC_NONE \/ ip_write[1].ret = Some(FALSE)

\* C26: write_gps_inplace is all-or-nothing for the original file: the
\* original is replaced only after the write to the temporary file has
\* succeeded; when that write returns False or raises (out-of-range
\* coordinates included) the original file is left unchanged, the
\* temporary file is removed, and the failure is reported as False or
\* re-raised.
C26_InplaceAllOrNothing ==
    /\ ~C26_OriginalUntouched =>
          /\ ip_write # None
          /\ ip_write[1].exc = EXC_NONE
          /\ ip_write[1].ret = Some(TRUE)
    /\ (C26_WriteFailed /\ ip_pc \in {"done", "raised"}) =>
          /\ C26_OriginalUntouched
          /\ ip_fs.temp = "absent"
          /\ IF ip_write[1].exc # EXC_NONE
             THEN ip_pc = "raised" /\ ip_exc = ip_write[1].exc
                  /\ ip_ret = None
             ELSE ip_pc = "done" /\ ip_ret = Some(FALSE)
                  /\ ip_exc = EXC_NONE

\* reached: a call with an out-of-range latitude on an existing photo has
\* re-raised the ValueError with the temporary file gone; and (second
\* disjunct) a save that failed half-way was reported as False
C26_Witness ==
    /\ C26_WriteFailed
    /\ ip_fs_at_call.image = "file"
    /\ ip_fs.temp = "absent"
    /\ \/ /\ ip_pc = "raised"
          /\ ip_exc = EXC_OUT_OF_RANGE
          /\ ip_lat > GpsDeg(LatLimit)
       \/ /\ ip_pc = "done"
          /\ ip_ret = Some(FALSE)
          /\ ip_write[1].dst = "partial"

----------------------------------------------------------------------------

\* the results handled so far by the write loop that are matched
C25_MatchedSoFar ==
    {k \in 1..p_pos : p_match_results[k].status = MATCH_STATUS_MATCHED}

\* the calls of the writers counted on a counter
C25_Counted(counter) ==
    Cardinality({k \in 1..Len(p_calls) : p_calls[k].counted = counter})

----------------------------------------------------------------------------

\* the paths of the items of a list
C27_Paths(items) == {items[k].path : k \in 1..Len(items)}

\* the photo of the path has a match result with status matched and both
\* coordinates
C27_Matched(photo_path) ==
    \E k \in 1..Len(p_match_results) :
        /\ p_match_results[k].photo_path = photo_path
        /\ p_match_results[k].status = MATCH_STATUS_MATCHED
        /\ p_match_results[k].lat # None
        /\ p_match_results[k].lon # None

\* C27: the pipeline writes GPS data only for photos whose match result
\* is matched with both coordinates present: the photos the scan put on
\* already_gps or no_time are never handed to the matching or to a
\* writer, photos with result too_far are never written, and the file of
\* a photo without a matched result is never modified, in overwrite mode
\* too.
C27_OnlyMatchedWritten ==
    /\ \A k \in 1..Len(p_match_results) :
          /\ p_match_results[k].photo_path \in C27_Paths(p_lists.need_process)
          /\ p_match_results[k].photo_path \notin
                C27_Paths(p_lists.already_gps) \cup C27_Paths(p_lists.no_time)
    /\ \A k \in 1..Len(p_calls) :
          /\ C27_Matched(p_calls[k].src)
          /\ p_calls[k].src \notin
                C27_Paths(p_lists.already_gps) \cup C27_Paths(p_lists.no_time)
    /\ \A photo_path \in DOMAIN p_files :
          ~C27_Matched(photo_path) => p_files[photo_path] = Untouched

\* reached: a finished run in overwrite mode over two photos, one matched
\* and rewritten with its GPS block, the other too far from the track and
\* left as it was
C27_Witness ==
    /\ p_pc = "done"
    /\ p_output_mode = "overwrite"
    /\ Len(p_match_results) = 2
    /\ \E j, k \in 1..2 :
          /\ p_match_results[j].status = MATCH_STATUS_MATCHED
          /\ p_files[p_match_results[j].photo_path].data = "written"
          /\ p_files[p_match_results[j].photo_path].gps # None
          /\ p_match_results[k].status = MATCH_STATUS_TOO_FAR
          /\ p_files[p_match_results[k].photo_path] = Untouched

----------------------------------------------------------------------------

\* C30: in copy mode distinct matched source photos are written to
\* distinct destination files, so the number of output photo files equals
\* write_success and no output written successfully is overwritten by a
\* later photo of the same run, also in a recursive scan where files in
\* different subdirectories share a file name.
C30_DistinctDestinations ==
    (p_output_mode = "copy" /\ p_pc \in {"write", "done"}) =>
        /\ \A j, k \in 1..Len(p_calls) :
              p_calls[j].src # p_calls[k].src
                  => p_calls[j].dst # p_calls[k].dst
        /\ Cardinality({n \in DOMAIN p_output :
                          p_output[n].data = "written"}) = write_success
        /\ \A k \in 1..Len(p_calls) :
              p_calls[k].counted = "write_success" =>
                  /\ p_calls[k].dst \in DOMAIN p_output
                  /\ p_output[p_calls[k].dst].from = p_calls[k].src
                  /\ p_output[p_calls[k].dst].data = "written"

----------------------------------------------------------------------------

\* C28: the match preview and the processing pipeline agree: when the
\* preview and a processing run were made in the same application state
\* (photos, track, timezone, camera offset, threshold, method and
\* max_distance_m), the results the preview shows equal the match results
\* the pipeline computes and writes.
C28_PreviewEqualsPipeline ==
    (/\ ui_previewed # None
     /\ ui_processed # None
     /\ ui_processed[1].state = ui_previewed[1])
        => app_match_results = ui_processed[1].match_results

----------------------------------------------------------------------------

\* degrees, minutes and seconds as written for the coordinate x: three
\* rationals, whole degrees up to limit, whole minutes below 60, and
\* thousandths of a second below 60 seconds
C29_WellFormed(x, ref, dms, pos_ref, neg_ref, limit) ==
    /\ ref = (IF x >= 0 THEN pos_ref ELSE neg_ref)
    /\ Len(dms) = 3
    /\ dms[1][2] = 1 /\ dms[1][1] \in 0..limit
    /\ dms[2][2] = 1 /\ dms[2][1] \in 0..(SexagesimalBase - 1)
    /\ dms[3][2] = SecondsDenominator
    /\ dms[3][1] \in 0..(SexagesimalBase * SecondsDenominator - 1)

\* C29: every encoded GPS coordinate is a well-formed DMS value: the
\* reference is N (resp. E) exactly when lat (resp. lon) is >= 0 and S
\* (resp. W) otherwise, degrees is an integer in 0..90 for latitude and
\* 0..180 for longitude, minutes is an integer in 0..59, and the seconds
\* numerator over denominator 1000 is an integer in 0..59999.
C29_WellFormedDms ==
    gps_ifd # None =>
        /\ C29_WellFormed(w_lat, gps_ifd[1].GPSLatitudeRef,
                          gps_ifd[1].GPSLatitude, "N", "S", LatLimit)
        /\ C29_WellFormed(w_lon, gps_ifd[1].GPSLongitudeRef,
                          gps_ifd[1].GPSLongitude, "E", "W", LonLimit)

\* a latitude next below one degree south is encoded with 59 minutes and
\* more than 59 seconds, together with a longitude of zero
C29_Witness ==
    /\ gps_ifd # None
    /\ w_lat = -(GpsDeg(1) - 1)
    /\ w_lon = 0
    /\ gps_ifd[1].GPSLatitudeRef = "S"
    /\ gps_ifd[1].GPSLatitude[1][1] = 0
    /\ gps_ifd[1].GPSLatitude[2][1] = SexagesimalBase - 1
    /\ gps_ifd[1].GPSLatitude[3][1] > (SexagesimalBase - 1) * SecondsDenominator
    /\ gps_ifd[1].GPSLongitudeRef = "E"

====
